---- MODULE Spec2Model ----
(***************************************************************************)
(* mac-reminders-agent: cli.js -> reminders/apple-bridge.js ->             *)
(* (AppleScript | reminders/eventkit-bridge.swift) -> Reminders store.     *)
(*                                                                         *)
(* Text is a sequence of chunks (short strings).  JavaScript values of the *)
(* args object are tagged records, so that the boolean true a flag without *)
(* a value gets is distinct from every string.                             *)
(***************************************************************************)
EXTENDS Integers, Sequences, FiniteSets, TLC

VARIABLES
    tz,         \* the process's local zone: minutes east of UTC
    now,        \* the current local wall-clock time, in seconds
    hasLocales, \* whether the running cli.js could read locales.json when it started
    store,      \* the default list of the Reminders store: a sequence of items
    nextId,     \* the next identifier the store hands out
    cli,        \* the cli.js process
    br,         \* the apple-bridge.js process
    sw,         \* the eventkit-bridge.swift process
    ops,        \* the external calls of the current invocation, in order
    listing,    \* the last list evaluated directly on a transport
    eval,       \* the last function of the program evaluated on its own: input and output
    threads     \* the threads of the Swift helper inside withReminderAccess

vars == <<tz, now, hasLocales, store, nextId, cli, br, sw, ops, listing, eval, threads>>

----------------------------------------------------------------------------
(* Bounds *)

MaxAdds == 1           \* reminders created in a behaviour of Spec
MaxSwiftAdds == 1      \* reminders created in a behaviour of SpecSwift
MaxListItems == 2      \* reminders in the store a list is evaluated on in SpecList
MaxParts == 2          \* parts of a template formatResponse is evaluated on in SpecEval

----------------------------------------------------------------------------
(* JavaScript and Swift values *)

Undefined == [t |-> "undefined"]
JsTrue == [t |-> "true"]
Str(s) == [t |-> "str", s |-> s]
Empty == Str(<<>>)

\* JavaScript truthiness of an args value
Truthy(v) == v.t = "true" \/ (v.t = "str" /\ v.s # <<>>)

\* v || ''
OrEmpty(v) == IF Truthy(v) THEN v ELSE Empty

\* String(v), `${v}` and the conversion execFile applies to an argument
ToText(v) == IF v.t = "true" THEN <<"true">> ELSE IF v.t = "str" THEN v.s ELSE <<"undefined">>

Keys == {"title", "due", "note", "repeat", "repeat-end", "interval", "locale", "scope", "id"}

\* A command-line token: --name, or any other text
Flag(name) == [name |-> name, flag |-> TRUE, text |-> <<>>]
Val(text) == [name |-> "", flag |-> FALSE, text |-> text]

NoArgs == [opt |-> [k \in Keys |-> Undefined], pos |-> <<>>]

RECURSIVE parseArgsFrom(_, _, _, _)
parseArgsFrom(argv, i, args, currentKey) ==
    IF i > Len(argv) THEN args
    ELSE LET token == argv[i] IN
         IF token.flag
         THEN parseArgsFrom(argv, i + 1, [args EXCEPT !.opt[token.name] = JsTrue], token.name)
         ELSE IF currentKey # ""
         THEN parseArgsFrom(argv, i + 1, [args EXCEPT !.opt[currentKey] = Str(token.text)], "")
         ELSE parseArgsFrom(argv, i + 1, [args EXCEPT !.pos = Append(@, token.text)], "")

\* cli.js and apple-bridge.js: a flag maps to true until a value follows it
parseArgs(argv) == parseArgsFrom(argv, 1, NoArgs, "")

RECURSIVE swParseArgsFrom(_, _, _, _)
swParseArgsFrom(argv, i, result, currentKey) ==
    IF i > Len(argv) THEN result
    ELSE LET arg == argv[i] IN
         IF arg.flag
         THEN swParseArgsFrom(argv, i + 1, [result EXCEPT ![arg.name] = Empty], arg.name)
         ELSE IF currentKey # ""
         THEN swParseArgsFrom(argv, i + 1, [result EXCEPT ![currentKey] = Str(arg.text)], "")
         ELSE swParseArgsFrom(argv, i + 1, result, "")

\* eventkit-bridge.swift: a flag maps to "" until a value follows it; nil when absent
swParseArgs(argv) == swParseArgsFrom(argv, 1, [k \in Keys |-> Undefined], "")

\* Swift: if let x = args[k], !x.isEmpty
Given(v) == v.t = "str" /\ v.s # <<>>

\* the command of a parsed command line: args._[0]
CmdOf(args) == IF args.pos = <<>> THEN <<>> ELSE args.pos[1]

----------------------------------------------------------------------------
(* Text helpers *)

RECURSIVE Concat(_)
Concat(ss) == IF ss = <<>> THEN <<>> ELSE Head(ss) \o Concat(Tail(ss))

IsPrefixAt(text, pat, i) ==
    /\ i + Len(pat) - 1 <= Len(text)
    /\ \A j \in 1..Len(pat) : text[i + j - 1] = pat[j]

\* the replacement text of String.prototype.replace: $& stands for the matched text and
\* $$ for a dollar sign
RECURSIVE Replacement(_, _)
Replacement(rep, matched) ==
    IF rep = <<>> THEN <<>>
    ELSE (IF Head(rep) = "$&" THEN matched ELSE IF Head(rep) = "$$" THEN <<"$">> ELSE <<Head(rep)>>)
         \o Replacement(Tail(rep), matched)

RECURSIVE ReplaceAllFrom(_, _, _, _)
ReplaceAllFrom(text, pat, rep, i) ==
    IF i > Len(text) THEN <<>>
    ELSE IF IsPrefixAt(text, pat, i)
    THEN rep \o ReplaceAllFrom(text, pat, rep, i + Len(pat))
    ELSE <<text[i]>> \o ReplaceAllFrom(text, pat, rep, i + 1)

\* String.prototype.replace with a global regular expression of literal text
ReplaceAll(text, pat, rep) == ReplaceAllFrom(text, pat, Replacement(rep, pat), 1)

\* String.prototype.replace with a string pattern: the first occurrence only
ReplaceFirst(text, pat, rep) ==
    LET hits == {i \in 1..Len(text) : IsPrefixAt(text, pat, i)} IN
    IF hits = {} THEN text
    ELSE LET i == CHOOSE h \in hits : \A g \in hits : h <= g IN
         SubSeq(text, 1, i - 1) \o rep \o SubSeq(text, i + Len(pat), Len(text))

Digit(n) == <<"0", "1", "2", "3", "4", "5", "6", "7", "8", "9">>[n + 1]

\* String(n) for n >= 0
RECURSIVE NumText(_)
NumText(n) == IF n < 10 THEN <<Digit(n)>> ELSE NumText(n \div 10) \o <<Digit(n % 10)>>

\* String(n).padStart(2, '0')
Pad2(n) == IF n < 10 THEN <<"0">> \o NumText(n) ELSE NumText(n)

----------------------------------------------------------------------------
(* Calendar arithmetic of Date (JavaScript), Calendar (Foundation) and date *)
(* (AppleScript), without daylight saving                                   *)

Day == 86400

DaysOfEra(era, yoe, doy) ==
    era * 146097 + yoe * 365 + yoe \div 4 - yoe \div 100 + doy - 719468

DaysOfYear(y, mp, d) == DaysOfEra(y \div 400, y % 400, (153 * mp + 2) \div 5 + d - 1)

\* days from 1970-01-01 to a civil date; a day past the end of its month rolls over
DaysFromCivil(y0, m, d) ==
    DaysOfYear(IF m <= 2 THEN y0 - 1 ELSE y0, IF m > 2 THEN m - 3 ELSE m + 9, d)

CivilOfMonth(yr, mp, doy) ==
    [y |-> IF mp >= 10 THEN yr + 1 ELSE yr,
     mo |-> IF mp < 10 THEN mp + 3 ELSE mp - 9,
     d |-> doy - (153 * mp + 2) \div 5 + 1]

CivilOfDay(yr, doy) == CivilOfMonth(yr, (5 * doy + 2) \div 153, doy)

CivilOfYear(era, doe, yoe) ==
    CivilOfDay(yoe + era * 400, doe - (365 * yoe + yoe \div 4 - yoe \div 100))

CivilOfEra(era, doe) ==
    CivilOfYear(era, doe, (doe - doe \div 1460 + doe \div 36524 - doe \div 146096) \div 365)

\* the civil date of a count of days from 1970-01-01
CivilFromDays(z0) == CivilOfEra((z0 + 719468) \div 146097, (z0 + 719468) % 146097)

\* seconds of a wall-clock reading; out-of-range fields roll over
SecondsOf(c) == DaysFromCivil(c.y, c.mo, c.d) * Day + c.h * 3600 + c.mi * 60 + c.s

\* a civil date and the seconds into it, as one reading
ClockOn(ymd, rest) ==
    [y |-> ymd.y, mo |-> ymd.mo, d |-> ymd.d,
     h |-> rest \div 3600, mi |-> (rest % 3600) \div 60, s |-> rest % 60]

\* the wall-clock reading of a count of seconds
ComponentsOf(secs) == ClockOn(CivilFromDays(secs \div Day), secs % Day)

\* Date.prototype.getDay of a local wall-clock reading: 0 is Sunday
DayOfWeek(secs) == (secs \div Day + 4) % 7

----------------------------------------------------------------------------
(* Due strings.  A due string is one chunk of text; what the two parsers   *)
(* read from it is tabulated for the strings the model uses.              *)

DueTable ==
    [c \in {"2026-02-05T09:00:00+09:00", "2026-03-01T03:00:00+09:00", "2026-02-05T09:00:00+00:00"} |->
        CASE c = "2026-02-05T09:00:00+09:00" ->
                [y |-> 2026, mo |-> 2, d |-> 5, h |-> 9, mi |-> 0, s |-> 0, off |-> 540]
          [] c = "2026-03-01T03:00:00+09:00" ->
                [y |-> 2026, mo |-> 3, d |-> 1, h |-> 3, mi |-> 0, s |-> 0, off |-> 540]
          [] OTHER ->
                [y |-> 2026, mo |-> 2, d |-> 5, h |-> 9, mi |-> 0, s |-> 0, off |-> 0]]

\* the text is a date-time with an explicit UTC offset
IsIsoText(text) == Len(text) = 1 /\ text[1] \in DOMAIN DueTable

\* the digits written in the string, and its offset in minutes
Written(text) == DueTable[text[1]]

WallOf(w) == [y |-> w.y, mo |-> w.mo, d |-> w.d, h |-> w.h, mi |-> w.mi, s |-> w.s]

\* new Date(text): the instant, in seconds of UTC, or NaN
DateParse(text) ==
    IF IsIsoText(text)
    THEN [ok |-> TRUE, utc |-> SecondsOf(WallOf(Written(text))) - Written(text).off * 60]
    ELSE [ok |-> FALSE, utc |-> 0]

\* getFullYear, getMonth() + 1, getDate, getHours, getMinutes: the local reading
LocalReading(utc, zone) == ComponentsOf(utc + zone * 60)

NoDate == [ok |-> FALSE]

\* apple-bridge.js parseISO: the fields it returns, read from the local reading
IsoFields(l) ==
    [ok |-> TRUE, year |-> l.y, month |-> l.mo, day |-> l.d, hour |-> l.h, minute |-> l.mi]

\* apple-bridge.js parseISO
parseISO(dueISO, zone) ==
    IF ~Truthy(dueISO) THEN NoDate
    ELSE IF ~DateParse(ToText(dueISO)).ok THEN NoDate
    ELSE IsoFields(LocalReading(DateParse(ToText(dueISO)).utc, zone))

NoDue == [set |-> FALSE]
DueAt(c) == [set |-> TRUE, y |-> c.y, mo |-> c.mo, d |-> c.d, h |-> c.h, mi |-> c.mi, s |-> c.s]

\* eventkit-bridge.swift parseISO8601: the six digit groups, as written
parseISO8601(dateStr) ==
    IF IsIsoText(dateStr) THEN DueAt(WallOf(Written(dateStr))) ELSE NoDue

\* Calendar.current.date(from:) of stored components, as local seconds
DateFrom(due) == SecondsOf(due)

----------------------------------------------------------------------------
(* Locale bundles (locales.json) and rendering                             *)

Supported == {"en", "ko", "ja", "zh"}
Freqs == {"daily", "weekly", "monthly", "yearly"}

\* the fallbacks written in cli.js
DefaultAdded == <<"Added '", "{", "title", "}", "' reminder", "{", "due_text", "}", ".">>
DefaultWithDue == <<" for ", "{", "due", "}">>
DefaultNoDue == <<" without a due date">>
DefaultErrorAccess == <<"Error accessing Reminders app">>

\* an object without responses and without repeat: {} and any inherited property
EmptyBundle ==
    [table |-> "none", hasResponses |-> FALSE, hasRepeat |-> FALSE]

\* locales.json: the bundle of a supported language
LocaleTable(code) ==
    [table |-> code, hasResponses |-> TRUE, hasRepeat |-> TRUE,
     added |-> IF code = "en" THEN DefaultAdded ELSE <<"[", code, "]">> \o DefaultAdded,
     added_with_due |-> IF code = "en" THEN DefaultWithDue ELSE <<"[", code, "]">> \o DefaultWithDue,
     added_no_due |-> IF code = "en" THEN DefaultNoDue ELSE <<"[", code, "]">> \o DefaultNoDue,
     error_access |-> <<"[", code, "]", "There was a problem accessing the Reminders app">>,
     labels |-> [f \in Freqs |->
                    IF f = "weekly" THEN <<"[", code, "]", "weekly on ", "{", "day", "}">>
                    ELSE <<"[", code, "]", f>>],
     days |-> <<"Sun", "Mon", "Tue", "Wed", "Thu", "Fri", "Sat">>,
     months |-> <<"Jan", "Feb", "Mar", "Apr", "May", "Jun",
                  "Jul", "Aug", "Sep", "Oct", "Nov", "Dec">>]

\* property names every JavaScript object inherits
Inherited == {"constructor", "toString", "__proto__"}

\* the property key a value is converted to
KeyOf(v) == LET txt == ToText(v) IN IF Len(txt) = 1 THEN txt[1] ELSE ""

\* locales[code] || locales['en'] || {}
getLocale(code, loaded) ==
    IF loaded /\ KeyOf(code) \in Supported THEN LocaleTable(KeyOf(code))
    ELSE IF KeyOf(code) \in Inherited THEN EmptyBundle
    ELSE IF loaded THEN LocaleTable("en")
    ELSE EmptyBundle

RECURSIVE formatResponseFrom(_, _, _)
formatResponseFrom(result, varList, i) ==
    IF i > Len(varList) THEN result
    ELSE formatResponseFrom(
            ReplaceAll(result, <<"{", varList[i].key, "}">>, ToText(OrEmpty(varList[i].value))),
            varList, i + 1)

\* cli.js formatResponse: one global replace per variable, in order
formatResponse(template, varList) == formatResponseFrom(template, varList, 1)

\* cli.js formatDueForTitle: the text made from the local reading
DueTitleText(l, sep) ==
    NumText(l.y) \o <<sep>> \o Pad2(l.mo) \o <<sep>> \o Pad2(l.d)
    \o <<" ">> \o Pad2(l.h) \o <<":">> \o Pad2(l.mi)

\* cli.js formatDueForTitle
formatDueForTitle(dueISO, locale, zone) ==
    IF ~Truthy(dueISO) THEN <<>>
    ELSE IF ~DateParse(ToText(dueISO)).ok THEN <<>>
    ELSE DueTitleText(LocalReading(DateParse(ToText(dueISO)).utc, zone),
                      IF locale = Str(<<"ko">>) THEN "." ELSE "-")

----------------------------------------------------------------------------
(* The Reminders store and eventkit-bridge.swift                            *)

\* calendarItemIdentifier of the n-th item the store created
IdText(n) == <<"id">> \o NumText(n)

\* Int(text): the texts the model passes as --interval
IntTable ==
    [c \in {"1", "2", "3", "0", "-1"} |->
        CASE c = "1" -> 1 [] c = "2" -> 2 [] c = "3" -> 3 [] c = "0" -> 0 [] OTHER -> 0 - 1]
IsIntText(text) == Len(text) = 1 /\ text[1] \in DOMAIN IntTable

\* the texts the model passes as --repeat-end
EndTable == [c \in {"2026-06-30"} |-> [y |-> 2026, mo |-> 6, d |-> 30]]
NoEnd == [set |-> FALSE]

MutParseEndDateAny(dateStr) == [set |-> TRUE, y |-> 2026, mo |-> 6, d |-> 30]

\* eventkit-bridge.swift parseEndDate
parseEndDate(dateStr) ==
    IF Len(dateStr) = 1 /\ dateStr[1] \in DOMAIN EndTable
    THEN LET e == EndTable[dateStr[1]] IN [set |-> TRUE, y |-> e.y, mo |-> e.mo, d |-> e.d]
    ELSE NoEnd

\* eventkit-bridge.swift parseFrequency (of lower-case text)
parseFrequency(freq) ==
    IF Len(freq) = 1 /\ freq[1] \in Freqs THEN [ok |-> TRUE, f |-> freq[1]] ELSE [ok |-> FALSE]

\* freqMap[repeatVal.lowercased()] ?? -1
freqNumber(freq) ==
    IF ~parseFrequency(freq).ok THEN -1
    ELSE CASE freq[1] = "daily" -> 0 [] freq[1] = "weekly" -> 1
           [] freq[1] = "monthly" -> 2 [] OTHER -> 3

MutIntervalOfOne(a) == 1

\* Int(args["interval"] ?? "1") ?? 1
intervalOf(a) ==
    IF a["interval"].t = "str" /\ IsIntText(a["interval"].s) THEN IntTable[a["interval"].s[1]] ELSE 1

\* the recurrence rules add and edit build from --repeat, --interval, --repeat-end
rulesOf(a) ==
    LET end == IF Given(a["repeat-end"]) THEN parseEndDate(a["repeat-end"].s) ELSE NoEnd IN
    <<[frequency |-> parseFrequency(a["repeat"].s).f, interval |-> intervalOf(a), end |-> end]>>

\* a line a process printed on standard output: a JSON document, or other text
printJSON(dict) == [v |-> dict, json |-> TRUE]
PlainText(text) == [v |-> text, json |-> FALSE]

Num(n) == [t |-> "num", n |-> n]

printError(message) == printJSON([ok |-> FALSE, error |-> message])

SwResult(st, nid, out, calls) ==
    [store |-> st, nextId |-> nid, out |-> out, calls |-> calls, exit |-> 0]

\* EKRecurrenceRule(recurrenceWith:interval:end:) raises on an interval of 0; what it does
\* with a negative one is not documented: env.negativeOk is whether it takes it
ruleRaises(a, env) == intervalOf(a) = 0 \/ (intervalOf(a) < 0 /\ ~env.negativeOk)

\* the run ended by an exception Swift cannot catch: nothing printed, nothing saved
SwRaised(st, nid, calls) ==
    [store |-> st, nextId |-> nid, out |-> <<>>, calls |-> calls, exit |-> 1]

MutAccessFailureSilent(st, nid, env) == SwResult(st, nid, <<>>, <<"requestAccess">>)

\* withReminderAccess and the default-calendar guard: the result when the body cannot run
AccessFailure(st, nid, env) ==
    IF ~env.granted
    THEN SwResult(st, nid, <<printError(<<"Reminders access denied">>)>>, <<"requestAccess">>)
    ELSE SwResult(st, nid, <<printError(<<"No default calendar">>)>>,
                  <<"requestAccess", "defaultCalendar">>)

MutFetchReminderAny(st, id) ==
    LET hits == {i \in 1..Len(st) : st[i].id = id} IN
    IF hits # {} THEN CHOOSE i \in hits : TRUE ELSE Len(st)

\* fetchReminder: the index of the item with the identifier, or 0
fetchReminder(st, id) ==
    LET hits == {i \in 1..Len(st) : st[i].id = id} IN
    IF hits = {} THEN 0 ELSE CHOOSE i \in hits : TRUE

Opt(cond, rec) == IF cond THEN rec ELSE <<>>

\* ISO8601DateFormatter.string(from:) of stored components: the instant
InstantOf(due, zone) == [utc |-> DateFrom(due) - zone * 60]

\* eventkit-bridge.swift addReminder
addReminder(a, st, nid, env) ==
    IF ~Given(a["title"])
    THEN SwResult(st, nid, <<printError(<<"--title is required">>)>>, <<>>)
    ELSE IF ~env.granted THEN AccessFailure(st, nid, env)
    ELSE IF ~env.hasCal THEN AccessFailure(st, nid, env)
    ELSE LET due == IF Given(a["due"]) THEN parseISO8601(a["due"].s) ELSE NoDue
             hasRule == Given(a["repeat"]) /\ parseFrequency(a["repeat"].s).ok
             reminder ==
                [id |-> IdText(nid),
                 title |-> a["title"].s,
                 notes |-> IF Given(a["note"]) THEN a["note"] ELSE Undefined,
                 due |-> due,
                 alarms |-> IF due.set THEN <<DateFrom(due)>> ELSE <<>>,
                 rules |-> IF hasRule THEN rulesOf(a) ELSE <<>>,
                 completed |-> FALSE,
                 completionDate |-> 0]
             result ==
                [ok |-> TRUE, id |-> IdText(nid), title |-> a["title"].s]
                @@ Opt(a["due"].t = "str", [due |-> a["due"]])
                @@ Opt(a["note"].t = "str", [note |-> a["note"]])
                @@ Opt(Given(a["repeat"]),
                       [repeat |-> a["repeat"],
                        frequency |-> Num(freqNumber(a["repeat"].s))])
                @@ Opt(a["interval"].t = "str", [interval |-> Num(intervalOf(a))])
                @@ Opt(a["repeat-end"].t = "str", [repeatEnd |-> a["repeat-end"]])
             calls == <<"requestAccess", "defaultCalendar", "save">>
         IN IF hasRule /\ ruleRaises(a, env)
            THEN SwRaised(st, nid, <<"requestAccess", "defaultCalendar">>)
            ELSE IF env.saveOk
            THEN SwResult(Append(st, reminder), nid + 1, <<printJSON(result)>>, calls)
            ELSE SwResult(st, nid, <<printError(<<"save failed">>)>>, calls)

MutEditNotesReset(notes, note) == IF Given(note) THEN note ELSE Undefined

\* editReminder: if let note = args["note"] { reminder.notes = note.isEmpty ? nil : note }
editNotes(notes, note) ==
    IF note.t = "str" THEN (IF note.s = <<>> THEN Undefined ELSE note) ELSE notes

MutEditAlarmsAppend(alarms, newDue) == Append(alarms, DateFrom(newDue))

\* editReminder: every existing alarm is removed, then one is added at the new due date
editAlarms(alarms, newDue) == <<DateFrom(newDue)>>

\* eventkit-bridge.swift editReminder
editReminder(a, st, nid, env, zone) ==
    IF ~Given(a["id"])
    THEN SwResult(st, nid, <<printError(<<"--id is required">>)>>, <<>>)
    ELSE IF ~env.granted THEN AccessFailure(st, nid, env)
    ELSE LET i == fetchReminder(st, a["id"].s) IN
         IF i = 0
         THEN SwResult(st, nid, <<printError(<<"Reminder not found">>)>>,
                       <<"requestAccess", "calendarItem">>)
         ELSE LET old == st[i]
                  newDue == IF Given(a["due"]) THEN parseISO8601(a["due"].s) ELSE NoDue
                  r1 == IF Given(a["title"]) THEN [old EXCEPT !.title = a["title"].s] ELSE old
                  r2 == [r1 EXCEPT !.notes = editNotes(old.notes, a["note"])]
                  r3 == IF newDue.set
                        THEN [r2 EXCEPT !.due = newDue, !.alarms = editAlarms(old.alarms, newDue)]
                        ELSE r2
                  hasRule == Given(a["repeat"]) /\ parseFrequency(a["repeat"].s).ok
                  r4 == IF hasRule THEN [r3 EXCEPT !.rules = rulesOf(a)] ELSE r3
                  result ==
                     [ok |-> TRUE, id |-> a["id"].s, title |-> r4.title, oldTitle |-> old.title]
                     @@ Opt(r4.due.set, [due |-> InstantOf(r4.due, zone)])
                  calls == <<"requestAccess", "calendarItem", "save">>
              IN IF hasRule /\ ruleRaises(a, env)
                 THEN SwRaised(st, nid, <<"requestAccess", "calendarItem">>)
                 ELSE IF env.saveOk
                 THEN SwResult([st EXCEPT ![i] = r4], nid, <<printJSON(result)>>, calls)
                 ELSE SwResult(st, nid, <<printError(<<"save failed">>)>>, calls)

MutRemoveAtNext(st, i) == SubSeq(st, 1, i) \o SubSeq(st, i + 2, Len(st))

\* store.remove(reminder, commit: true)
RemoveAt(st, i) == SubSeq(st, 1, i - 1) \o SubSeq(st, i + 1, Len(st))

\* eventkit-bridge.swift deleteReminder
deleteReminder(a, st, nid, env) ==
    IF ~Given(a["id"])
    THEN SwResult(st, nid, <<printError(<<"--id is required">>)>>, <<>>)
    ELSE IF ~env.granted THEN AccessFailure(st, nid, env)
    ELSE LET i == fetchReminder(st, a["id"].s) IN
         IF i = 0
         THEN SwResult(st, nid, <<printError(<<"Reminder not found">>)>>,
                       <<"requestAccess", "calendarItem">>)
         ELSE LET calls == <<"requestAccess", "calendarItem", "remove">> IN
              IF env.saveOk
              THEN SwResult(RemoveAt(st, i), nid,
                            <<printJSON([ok |-> TRUE, id |-> a["id"].s, title |-> st[i].title])>>, calls)
              ELSE SwResult(st, nid, <<printError(<<"remove failed">>)>>, calls)

MutMarkCompletedToggle(r, nowv) == [r EXCEPT !.completed = ~r.completed, !.completionDate = nowv]

MutMarkCompletedUndated(r, nowv) == [r EXCEPT !.completed = TRUE]

\* completeReminder: reminder.isCompleted = true; reminder.completionDate = Date()
markCompleted(r, nowv) == [r EXCEPT !.completed = TRUE, !.completionDate = nowv]

\* eventkit-bridge.swift completeReminder
completeReminder(a, st, nid, env, nowv) ==
    IF ~Given(a["id"])
    THEN SwResult(st, nid, <<printError(<<"--id is required">>)>>, <<>>)
    ELSE IF ~env.granted THEN AccessFailure(st, nid, env)
    ELSE LET i == fetchReminder(st, a["id"].s) IN
         IF i = 0
         THEN SwResult(st, nid, <<printError(<<"Reminder not found">>)>>,
                       <<"requestAccess", "calendarItem">>)
         ELSE LET calls == <<"requestAccess", "calendarItem", "save">> IN
              IF env.saveOk
              THEN SwResult([st EXCEPT ![i] = markCompleted(st[i], nowv)], nid,
                            <<printJSON([ok |-> TRUE, id |-> a["id"].s, title |-> st[i].title,
                                         completed |-> TRUE])>>, calls)
              ELSE SwResult(st, nid, <<printError(<<"save failed">>)>>, calls)

\* reminderToDict
reminderToDict(r, zone) ==
    [id |-> r.id, title |-> r.title, completed |-> r.completed]
    @@ Opt(r.due.set, [due |-> InstantOf(r.due, zone)])
    @@ Opt(Given(r.notes), [note |-> r.notes])
    @@ Opt(r.rules # <<>>, [repeat |-> Str(<<r.rules[1].frequency>>), interval |-> Num(r.rules[1].interval)])

RECURSIVE MapDict(_, _)
MapDict(rs, zone) ==
    IF rs = <<>> THEN <<>> ELSE <<reminderToDict(Head(rs), zone)>> \o MapDict(Tail(rs), zone)

MutIncompleteAll(st) == st

\* predicateForIncompleteReminders(withDueDateStarting: nil, ending: nil, ...)
Incomplete(st) == LET Open(r) == ~r.completed IN SelectSeq(st, Open)

\* listReminders, case "week": d >= startDate && d <= endDate
swiftInWeek(r, nowv) ==
    r.due.set /\ DateFrom(r.due) >= nowv - 1 * Day /\ DateFrom(r.due) <= nowv + 7 * Day

\* listReminders, case "today": d >= startOfDay && d < endOfDay
swiftInToday(r, nowv) ==
    LET startOfDay == nowv - (nowv % Day) IN
    r.due.set /\ DateFrom(r.due) >= startOfDay /\ DateFrom(r.due) < startOfDay + Day

\* listReminders: the reminders kept for a scope
swiftFiltered(scope, st, nowv) ==
    LET Today(r) == swiftInToday(r, nowv)
        Week(r) == swiftInWeek(r, nowv)
    IN IF scope = <<"today">> THEN SelectSeq(Incomplete(st), Today)
       ELSE IF scope = <<"week">> THEN SelectSeq(Incomplete(st), Week)
       ELSE Incomplete(st)

\* eventkit-bridge.swift listReminders
listReminders(a, st, nid, env, nowv, zone) ==
    LET scope == IF a["scope"].t = "str" THEN a["scope"].s ELSE <<"week">> IN
    IF ~env.granted THEN AccessFailure(st, nid, env)
    ELSE IF ~env.hasCal THEN AccessFailure(st, nid, env)
    ELSE SwResult(st, nid,
                  <<printJSON([ok |-> TRUE, items |-> MapDict(swiftFiltered(scope, st, nowv), zone)])>>,
                  <<"requestAccess", "defaultCalendar", "fetchReminders">>)

\* showHelp and the usage of the two node programs: text that is not JSON
UsageText == PlainText(<<"Usage:">>)

\* CommandLine.arguments[1], the command word (empty when there is none)
swCommand(argv) == IF Len(argv) >= 1 THEN argv[1].text ELSE <<>>

\* eventkit-bridge.swift entry point: the switch on the command
swiftMain(argv, st, nid, env, nowv, zone) ==
    LET a == swParseArgs(argv)
        command == swCommand(argv)
    IN CASE command = <<"list">> -> listReminders(a, st, nid, env, nowv, zone)
         [] command = <<"add">> -> addReminder(a, st, nid, env)
         [] command = <<"edit">> -> editReminder(a, st, nid, env, zone)
         [] command = <<"delete">> -> deleteReminder(a, st, nid, env)
         [] command = <<"complete">> -> completeReminder(a, st, nid, env, nowv)
         [] OTHER -> SwResult(st, nid, <<UsageText>>, <<>>)

----------------------------------------------------------------------------
(* reminders/apple-bridge.js                                                *)

\* title.replace(/"/g, '\\"')
escapeQuotes(text) == ReplaceAll(text, <<"\"">>, <<"\\", "\"">>)

RECURSIVE readLiteralFrom(_, _, _)
readLiteralFrom(body, i, acc) ==
    IF i > Len(body) THEN [ok |-> TRUE, text |-> acc]
    ELSE IF body[i] = "\\"
    THEN IF i = Len(body) THEN [ok |-> FALSE, text |-> acc]
         ELSE readLiteralFrom(body, i + 2, Append(acc, body[i + 1]))
    ELSE IF body[i] = "\"" THEN [ok |-> FALSE, text |-> acc]
    ELSE readLiteralFrom(body, i + 1, Append(acc, body[i]))

\* what AppleScript reads from "<body>": ok when the literal ends where the template ends it
readLiteral(body) == readLiteralFrom(body, 1, <<>>)

MutScriptWeekStrict(r, scope, nowv) ==
    LET startDate == IF scope = <<"today">> THEN nowv - (nowv % Day)
                     ELSE IF scope = <<"week">> THEN nowv - 1 * Day ELSE nowv
        endDate == IF scope = <<"today">> THEN startDate + 1 * Day
                   ELSE IF scope = <<"week">> THEN nowv + 7 * Day ELSE nowv
    IN /\ ~r.completed
       /\ \/ scope = <<"all">>
          \/ r.due.set /\ DateFrom(r.due) > startDate /\ DateFrom(r.due) <= endDate

\* the list script: whether reminder r is put in resultList
scriptKeeps(r, scope, nowv) ==
    LET startDate == IF scope = <<"today">> THEN nowv - (nowv % Day)
                     ELSE IF scope = <<"week">> THEN nowv - 1 * Day ELSE nowv
        endDate == IF scope = <<"today">> THEN startDate + 1 * Day
                   ELSE IF scope = <<"week">> THEN nowv + 7 * Day ELSE nowv
    IN /\ ~r.completed
       /\ \/ scope = <<"all">>
          \/ r.due.set /\ DateFrom(r.due) >= startDate /\ DateFrom(r.due) <= endDate

RECURSIVE MapRows(_)
MapRows(rs) ==
    IF rs = <<>> THEN <<>>
    ELSE <<[title |-> Head(rs).title, due |-> Head(rs).due]>> \o MapRows(Tail(rs))

\* apple-bridge.js list: the items the script returns, mapped to {title, due}
scriptList(scopeArg, st, nowv) ==
    LET scope == readLiteral(ToText(IF Truthy(scopeArg) THEN scopeArg ELSE Str(<<"week">>))).text
        Keeps(r) == scriptKeeps(r, scope, nowv)
    IN MapRows(SelectSeq(st, Keeps))

\* set year, month, day, hours, minutes, seconds of (current date), one field at a time
scriptTargetDate(dt, nowv) ==
    LET c0 == ComponentsOf(nowv)
        c1 == ComponentsOf(SecondsOf([c0 EXCEPT !.y = dt.year]))
        c2 == ComponentsOf(SecondsOf([c1 EXCEPT !.mo = dt.month]))
        c3 == ComponentsOf(SecondsOf([c2 EXCEPT !.d = dt.day]))
    IN [c3 EXCEPT !.h = dt.hour, !.mi = dt.minute, !.s = 0]

\* apple-bridge.js add, non-recurring: the reminder the script makes
scriptReminder(title, dueISO, note, nid, nowv, zone) ==
    LET dt == parseISO(dueISO, zone)
        escNote == IF Truthy(note) THEN escapeQuotes(ToText(note)) ELSE <<>>
    IN [id |-> IdText(nid),
        title |-> readLiteral(escapeQuotes(ToText(title))).text,
        notes |-> IF escNote # <<>> THEN Str(readLiteral(escNote).text) ELSE Undefined,
        due |-> IF dt.ok THEN DueAt(scriptTargetDate(dt, nowv)) ELSE NoDue,
        alarms |-> <<>>,
        rules |-> <<>>,
        completed |-> FALSE,
        completionDate |-> 0]

\* whether the add script is well formed: every spliced literal ends where the template ends it
scriptWellFormed(title, note) ==
    /\ readLiteral(escapeQuotes(ToText(title))).ok
    /\ Truthy(note) => readLiteral(escapeQuotes(ToText(note))).ok

Null == [t |-> "null"]

\* v || null
OrNull(v) == IF Truthy(v) THEN v ELSE Null

\* a process: its command line, what it printed, and how it ended.  pc is "none",
\* "failed" (it could not be started), "spawned", "await" or "exited"; intact tells
\* whether its parent finds on the pipe the lines it printed
Proc(pc, argv, stdout, stderr, exit) ==
    [argv |-> argv, exit |-> exit, pc |-> pc, stdout |-> stdout, stderr |-> stderr,
     intact |-> TRUE]

NoProc == Proc("none", <<>>, <<>>, <<>>, -1)

\* execFile's callback gets an error: the child did not start or did not exit with 0
ChildError(p) == p.pc = "failed" \/ p.exit # 0

\* stderr || err.message || String(err)
ChildErrorText(p) ==
    IF p.stderr # <<>> THEN Concat(p.stderr)
    ELSE IF p.pc = "failed" THEN <<"spawn ENOENT">> ELSE <<"Command failed">>

\* JSON.parse(stdout.trim()) succeeds
Parses(p) == p.intact /\ Len(p.stdout) = 1 /\ p.stdout[1].json

\* stdout.trim() when it is not JSON
RawText(p) == IF p.intact /\ p.stdout # <<>> THEN p.stdout[1].v ELSE <<"?">>

\* apple-bridge.js runSwiftHelper: the callback of execFile('swift', ...)
runSwiftHelperResult(p) ==
    IF ChildError(p) THEN [rejected |-> TRUE, message |-> ChildErrorText(p)]
    ELSE IF Parses(p)
    THEN IF ~p.stdout[1].v.ok
         THEN [rejected |-> TRUE, message |-> p.stdout[1].v.error]
         ELSE [rejected |-> FALSE, value |-> p.stdout[1].v]
    ELSE [rejected |-> TRUE, message |-> <<"Swift returned invalid JSON: ">> \o RawText(p)]

OptArg(name, v) == IF Truthy(v) THEN <<Flag(name), Val(ToText(v))>> ELSE <<>>

\* apple-bridge.js add: the command line of the Swift helper
bridgeSwiftArgv(title, dueISO, note, repeat, repeatEnd, interval) ==
    <<Val(<<"add">>), Flag("title"), Val(ToText(title))>>
    \o OptArg("due", dueISO) \o OptArg("note", note) \o OptArg("repeat", repeat)
    \o OptArg("interval", interval) \o OptArg("repeat-end", repeatEnd)

\* apple-bridge.js add: what it returns on the non-recurring path
bridgeScriptResult(title, dueISO, note) ==
    [ok |-> TRUE, title |-> ToText(title), due |-> OrNull(dueISO), note |-> OrNull(note)]

\* apple-bridge.js add: what it returns on the recurring path, {..., ...result}
bridgeSwiftResult(title, dueISO, note, repeat, repeatEnd, interval, result) ==
    result @@ [ok |-> TRUE, title |-> ToText(title), due |-> OrNull(dueISO),
               note |-> OrNull(note), repeat |-> OrNull(repeat),
               interval |-> OrNull(interval), repeatEnd |-> OrNull(repeatEnd)]

MutUseSwiftAlways(repeat) == TRUE

\* apple-bridge.js add: if (repeat) the Swift helper, else AppleScript
useSwift(repeat) == Truthy(repeat)

HelpWords == {<<>>, <<"help">>, <<"--help">>, <<"-h">>}

\* apple-bridge.js main catch: the line on standard error
bridgeErrorLine(message) == <<"Error running apple-bridge: ">> \o message

----------------------------------------------------------------------------
(* cli.js                                                                   *)

\* args.locale || 'en'
cliLocale(args) == IF Truthy(args.opt["locale"]) THEN args.opt["locale"] ELSE Str(<<"en">>)

\* the label with {day}, {date} and {month} filled in from the due date
RepeatLabelText(label, loc, ok, secs) ==
    <<" (">>
    \o ReplaceFirst(ReplaceFirst(ReplaceFirst(label,
           <<"{", "day", "}">>,
           IF ok THEN <<loc.days[DayOfWeek(secs) + 1]>> ELSE <<"undefined">>),
           <<"{", "date", "}">>,
           IF ok THEN NumText(ComponentsOf(secs).d) ELSE <<"NaN">>),
           <<"{", "month", "}">>,
           IF ok THEN <<loc.months[ComponentsOf(secs).mo]>> ELSE <<"undefined">>)
    \o <<")">>

\* the label in parentheses, filled in when there is a due date
RepeatLabelFor(label, due, loc, zone) ==
    IF Truthy(due)
    THEN RepeatLabelText(label, loc, DateParse(ToText(due)).ok,
                         DateParse(ToText(due)).utc + zone * 60)
    ELSE <<" (">> \o label \o <<")">>

\* the text in parentheses added to the title for a repeat, or nothing
cliRepeatLabel(args, loc, zone) ==
    IF /\ Truthy(OrEmpty(args.opt["repeat"]))
       /\ loc.hasRepeat
       /\ KeyOf(OrEmpty(args.opt["repeat"])) \in Freqs
    THEN RepeatLabelFor(loc.labels[KeyOf(OrEmpty(args.opt["repeat"]))],
                        OrEmpty(args.opt["due"]), loc, zone)
    ELSE <<>>

\* title = `${title} (${label})`
TitleWithRepeat(title, lab) == IF lab # <<>> THEN Str(ToText(title) \o lab) ELSE title

MutTitleWithDueFirst(t1, dueLabel) ==
    IF dueLabel # <<>> THEN Str(dueLabel \o <<" - ">> \o ToText(t1)) ELSE t1

\* title = `${title} - ${dueLabel}`
TitleWithDue(t1, dueLabel) ==
    IF dueLabel # <<>> THEN Str(ToText(t1) \o <<" - ">> \o dueLabel) ELSE t1

\* the title cli.js passes to the bridge
cliTitle(args, loc, zone) ==
    TitleWithDue(TitleWithRepeat(args.opt["title"], cliRepeatLabel(args, loc, zone)),
                 IF Truthy(OrEmpty(args.opt["due"]))
                 THEN formatDueForTitle(OrEmpty(args.opt["due"]), cliLocale(args), zone)
                 ELSE <<>>)

\* cli.js: if (!title) is false
titleAccepted(title) == Truthy(title)

\* cli.js add: the extra arguments of the bridge
cliAddExtra(args, title) ==
    <<Flag("title"), Val(ToText(title))>>
    \o OptArg("due", OrEmpty(args.opt["due"]))
    \o OptArg("note", OrEmpty(args.opt["note"]))
    \o OptArg("repeat", OrEmpty(args.opt["repeat"]))
    \o OptArg("repeat-end", OrEmpty(args.opt["repeat-end"]))
    \o OptArg("interval", OrEmpty(args.opt["interval"]))

\* cli.js add: the message of the response
cliAddMessage(args, loc, title) ==
    LET due == OrEmpty(args.opt["due"])
        dueText == IF Truthy(due)
                   THEN formatResponse(IF loc.hasResponses THEN loc.added_with_due ELSE DefaultWithDue,
                                       <<[key |-> "due", value |-> due]>>)
                   ELSE IF loc.hasResponses THEN loc.added_no_due ELSE DefaultNoDue
    IN formatResponse(IF loc.hasResponses THEN loc.added ELSE DefaultAdded,
                      <<[key |-> "title", value |-> title],
                        [key |-> "due_text", value |-> Str(dueText)]>>)

\* loc.responses || {}
cliLabels(loc) ==
    IF loc.hasResponses
    THEN [added |-> loc.added, added_with_due |-> loc.added_with_due,
          added_no_due |-> loc.added_no_due, error_access |-> loc.error_access]
    ELSE <<>>

\* what main does before the bridge answers: it exits, or starts the bridge
\* (args, cmd and loc are the constants it computes first)
cliStartWith(args, cmd, loc, zone) ==
    IF cmd \in HelpWords
    THEN [spawn |-> FALSE, stdout |-> <<UsageText>>, stderr |-> <<>>, exit |-> 0]
    ELSE IF cmd = <<"list">>
    THEN [spawn |-> TRUE,
          argv |-> <<Val(<<"list">>), Flag("scope"),
                     Val(ToText(IF Truthy(args.opt["scope"]) THEN args.opt["scope"]
                                ELSE Str(<<"week">>)))>>]
    ELSE IF cmd = <<"add">>
    THEN IF ~titleAccepted(args.opt["title"])
         THEN [spawn |-> FALSE, stdout |-> <<>>,
               stderr |-> <<<<"Error: --title is required for add">>>>, exit |-> 1]
         ELSE [spawn |-> TRUE,
               argv |-> <<Val(<<"add">>)>> \o cliAddExtra(args, cliTitle(args, loc, zone))]
    ELSE [spawn |-> FALSE, stdout |-> <<>>,
          stderr |-> <<<<"Unknown command: ">> \o cmd>>, exit |-> 1]

\* cli.js main, from its start to the call of the bridge
cliStart(argv, loaded, zone) ==
    cliStartWith(parseArgs(argv), CmdOf(parseArgs(argv)),
                 getLocale(cliLocale(parseArgs(argv)), loaded), zone)

MutRunReminderBridgeIgnoresExit(p) ==
    IF p.pc = "failed" THEN [rejected |-> TRUE, message |-> ChildErrorText(p)]
    ELSE IF Parses(p) THEN [rejected |-> FALSE, value |-> p.stdout[1].v]
    ELSE [rejected |-> FALSE, value |-> [ok |-> TRUE, raw |-> RawText(p)]]

\* cli.js runReminderBridge: the callback of execFile('node', ...)
runReminderBridgeResult(p) ==
    IF ChildError(p) THEN [rejected |-> TRUE, message |-> ChildErrorText(p)]
    ELSE IF Parses(p) THEN [rejected |-> FALSE, value |-> p.stdout[1].v]
    ELSE [rejected |-> FALSE, value |-> [ok |-> TRUE, raw |-> RawText(p)]]

\* what main prints once the bridge has answered, and its exit code
\* (r is what runReminderBridge resolved or rejected with)
cliFinishWith(args, cmd, locale, loc, r, zone) ==
    IF r.rejected
    THEN [stdout |-> <<>>,
          stderr |-> <<(IF loc.hasResponses THEN loc.error_access ELSE DefaultErrorAccess)
                       \o <<": ">> \o r.message>>,
          exit |-> 1]
    ELSE IF cmd = <<"list">>
    THEN [stdout |-> <<printJSON([locale |-> locale, labels |-> cliLabels(loc),
                                  items |-> r.value])>>,
          stderr |-> <<>>, exit |-> 0]
    ELSE [stdout |-> <<printJSON(
              [locale |-> locale,
               message |-> cliAddMessage(args, loc, cliTitle(args, loc, zone))]
              @@ r.value)>>,
          stderr |-> <<>>, exit |-> 0]

\* cli.js main, from the answer of the bridge to its exit
cliFinish(argv, p, loaded, zone) ==
    cliFinishWith(parseArgs(argv), CmdOf(parseArgs(argv)), cliLocale(parseArgs(argv)),
                  getLocale(cliLocale(parseArgs(argv)), loaded),
                  runReminderBridgeResult(p), zone)

----------------------------------------------------------------------------
(* Command lines and environments the model draws from                      *)

TimeZones == {0, 540}

NowValues == {SecondsOf([y |-> 2026, mo |-> 2, d |-> 4, h |-> 12, mi |-> 0, s |-> 0])}

\* a flag left out, given without a value, or given with a value
Absent == <<>>
NoValue(name) == <<Flag(name)>>
With(name, text) == <<Flag(name), Val(text)>>

GoodTitle == With("title", <<"A">>)
DueWithOffset == With("due", <<"2026-02-05T09:00:00+09:00">>)
DueMalformed == With("due", <<"tomorrow">>)
Weekly == With("repeat", <<"weekly">>)

\* add with the title missing, given without a value or empty; add with a title and
\* every due and repeat choice; add with a title and a due date in each locale
AddRequests ==
    {<<Val(<<"add">>)>> \o t \o d \o r :
        t \in {Absent, NoValue("title"), With("title", <<>>)},
        d \in {Absent, DueWithOffset}, r \in {Absent, Weekly}}
    \cup
    {<<Val(<<"add">>)>> \o GoodTitle \o d \o r :
        d \in {Absent, DueWithOffset, DueMalformed},
        r \in {Absent, NoValue("repeat"), Weekly}}
    \cup
    {<<Val(<<"add">>)>> \o GoodTitle \o DueWithOffset \o r \o l :
        r \in {Absent, Weekly},
        l \in {With("locale", <<"en">>), With("locale", <<"ko">>), With("locale", <<"xx">>)}}

\* every add; list with each scope and an unsupported locale; edit, delete and complete
\* with and without an id; no command, help, and a command that does not exist
Requests ==
    AddRequests
    \cup
    {<<Val(<<"list">>)>> \o sc \o l :
        sc \in {Absent, With("scope", <<"week">>), With("scope", <<"all">>),
                With("scope", <<"soon">>)},
        l \in {Absent, With("locale", <<"xx">>)}}
    \cup
    {<<Val(c)>> \o i : c \in {<<"edit">>, <<"delete">>, <<"complete">>},
                       i \in {Absent, NoValue("id"), With("id", IdText(1))}}
    \cup
    {<<>>, <<Val(<<"help">>)>>, <<Val(<<"purge">>)>>}

\* what the store answers during one run of the helper
StoreEnvs(negative) ==
    [negativeOk : negative, granted : BOOLEAN, hasCal : BOOLEAN, saveOk : BOOLEAN]

\* no request of the chain carries a negative interval
SwiftEnvs == StoreEnvs({TRUE})

----------------------------------------------------------------------------
(* The invocation chain: one cli.js process at a time                       *)

NoListing == [scope |-> <<>>, script |-> <<>>, swift |-> <<>>]

\* the commands of the tool
FiveCommands == {<<"list">>, <<"add">>, <<"edit">>, <<"delete">>, <<"complete">>}

\* no function evaluated on its own yet
NoEval == [fn |-> "none"]

\* the helper is not inside withReminderAccess
NoThreads ==
    [command |-> <<>>, main |-> "none", callback |-> "none", semaphore |-> 0, signals |-> 0,
     fetch |-> "none", fetchSemaphore |-> 0, printed |-> 0]

Init ==
    /\ tz \in TimeZones
    /\ now \in NowValues
    /\ hasLocales = TRUE
    /\ store = <<>>
    /\ nextId = 1
    /\ cli = Proc("idle", <<>>, <<>>, <<>>, -1)
    /\ br = NoProc
    /\ sw = NoProc
    /\ ops = <<>>
    /\ listing = NoListing
    /\ eval = NoEval
    /\ threads = NoThreads

\* cli.js main: it exits with what it printed, or execFile starts the bridge
CliStarted(argv, s, started) ==
    IF s.spawn
    THEN /\ cli' = Proc("await", argv, <<>>, <<>>, -1)
         /\ br' = IF started THEN Proc("spawned", s.argv, <<>>, <<>>, -1)
                  ELSE Proc("failed", s.argv, <<>>, <<>>, -1)
         /\ ops' = <<"node apple-bridge.js">>
    ELSE /\ cli' = Proc("exited", argv, s.stdout, s.stderr, s.exit)
         /\ br' = NoProc
         /\ ops' = <<>>

\* node cli.js <argv>: main up to the point where it waits for the bridge
CliMain(argv, loaded, started) ==
    /\ cli.pc = "idle"
    /\ hasLocales' = loaded
    /\ CmdOf(parseArgs(argv)) = <<"add">> => nextId <= MaxAdds
    /\ CliStarted(argv, cliStart(argv, loaded, tz), started)
    /\ sw' = NoProc
    /\ UNCHANGED <<tz, now, store, nextId, listing, eval, threads>>

\* what a process leaves when it ends
Exited(p, stdout, stderr, exit, intact) ==
    [p EXCEPT !.pc = "exited", !.stdout = stdout, !.stderr = stderr, !.exit = exit,
              !.intact = intact]

\* node apple-bridge.js <argv>: main, up to its exit or to the start of the Swift helper
BridgeMain(scriptOk, hasSwift, swiftStarted, intact) ==
    /\ br.pc = "spawned"
    /\ LET args == parseArgs(br.argv)
           cmd == CmdOf(args)
           title == args.opt["title"]
           due == OrEmpty(args.opt["due"])
           note == OrEmpty(args.opt["note"])
           repeat == OrEmpty(args.opt["repeat"])
           repeatEnd == OrEmpty(args.opt["repeat-end"])
           interval == OrEmpty(args.opt["interval"])
           scope == IF Truthy(args.opt["scope"]) THEN args.opt["scope"] ELSE Str(<<"week">>)
           failure(message) == Exited(br, <<>>, <<bridgeErrorLine(message)>>, 1, TRUE)
       IN IF cmd \in HelpWords
          THEN /\ br' = Exited(br, <<UsageText>>, <<>>, 0, intact)
               /\ UNCHANGED <<sw, store, nextId, ops>>
          ELSE IF cmd = <<"list">>
          THEN /\ br' = IF scriptOk /\ readLiteral(ToText(scope)).ok
                        THEN Exited(br, <<printJSON(scriptList(scope, store, now))>>, <<>>, 0, intact)
                        ELSE failure(<<"script error">>)
               /\ ops' = Append(ops, "osascript")
               /\ UNCHANGED <<sw, store, nextId>>
          ELSE IF cmd = <<"add">>
          THEN IF ~Truthy(title)
               THEN /\ br' = Exited(br, <<>>, <<<<"Error: --title is required for add">>>>, 1, TRUE)
                    /\ UNCHANGED <<sw, store, nextId, ops>>
               ELSE IF useSwift(repeat)
               THEN IF hasSwift
                    THEN /\ br' = [br EXCEPT !.pc = "await"]
                         /\ sw' = Proc(IF swiftStarted THEN "spawned" ELSE "failed",
                                       bridgeSwiftArgv(title, due, note, repeat, repeatEnd, interval),
                                       <<>>, <<>>, -1)
                         /\ ops' = ops \o <<"which swift", "swift eventkit-bridge.swift">>
                         /\ UNCHANGED <<store, nextId>>
                    ELSE /\ br' = failure(<<"Swift not found. Native recurrence requires Swift.">>)
                         /\ ops' = Append(ops, "which swift")
                         /\ UNCHANGED <<sw, store, nextId>>
               ELSE IF scriptOk /\ scriptWellFormed(title, note)
               THEN /\ store' = Append(store, scriptReminder(title, due, note, nextId, now, tz))
                    /\ nextId' = nextId + 1
                    /\ br' = Exited(br, <<printJSON(bridgeScriptResult(title, due, note))>>, <<>>, 0,
                                    intact)
                    /\ ops' = Append(ops, "osascript")
                    /\ UNCHANGED sw
               ELSE /\ br' = failure(<<"script error">>)
                    /\ ops' = Append(ops, "osascript")
                    /\ UNCHANGED <<sw, store, nextId>>
          ELSE /\ br' = Exited(br, <<>>, <<<<"Unknown command: ">> \o cmd>>, 1, TRUE)
               /\ UNCHANGED <<sw, store, nextId, ops>>
    /\ UNCHANGED <<tz, now, hasLocales, cli, listing, eval, threads>>

\* the helper ran to its end: what it printed and what it did to the store
SwiftRan(r, intact) ==
    /\ sw' = Exited(sw, r.out, IF r.exit = 0 THEN <<>> ELSE <<<<"error: fatal">>>>, r.exit,
                     r.exit # 0 \/ intact)
    /\ store' = r.store
    /\ nextId' = r.nextId
    /\ ops' = ops \o r.calls

\* swift eventkit-bridge.swift <argv>: the whole run; ran is FALSE when it is stopped
\* by a compile or runtime error before it prints
SwiftMain(env, ran, intact) ==
    /\ sw.pc = "spawned"
    /\ IF ran
       THEN SwiftRan(swiftMain(sw.argv, store, nextId, env, now, tz), intact)
       ELSE /\ sw' = Exited(sw, <<>>, <<<<"error: fatal">>>>, 1, TRUE)
            /\ UNCHANGED <<store, nextId, ops>>
    /\ UNCHANGED <<tz, now, hasLocales, cli, br, listing, eval, threads>>

\* apple-bridge.js main: prints the result of add, or the error it caught
BridgeAnswered(args, r, intact) ==
    br' = IF r.rejected
          THEN Exited(br, <<>>, <<bridgeErrorLine(r.message)>>, 1, TRUE)
          ELSE Exited(br,
                      <<printJSON(bridgeSwiftResult(
                          args.opt["title"], OrEmpty(args.opt["due"]),
                          OrEmpty(args.opt["note"]), OrEmpty(args.opt["repeat"]),
                          OrEmpty(args.opt["repeat-end"]), OrEmpty(args.opt["interval"]),
                          r.value))>>,
                      <<>>, 0, intact)

\* apple-bridge.js: the Swift helper has answered; add returns or throws, main prints
BridgeAfterSwift(intact) ==
    /\ br.pc = "await"
    /\ sw.pc \in {"exited", "failed"}
    /\ BridgeAnswered(parseArgs(br.argv), runSwiftHelperResult(sw), intact)
    /\ UNCHANGED <<tz, now, hasLocales, store, nextId, cli, sw, ops, listing, eval, threads>>

\* console.log or console.error of main, and process.exit
CliPrinted(f) == cli' = Exited(cli, f.stdout, f.stderr, f.exit, TRUE)

\* cli.js: the bridge has answered; main prints and exits
CliAfterBridge ==
    /\ cli.pc = "await"
    /\ br.pc \in {"exited", "failed"}
    /\ CliPrinted(cliFinish(cli.argv, br, hasLocales, tz))
    /\ UNCHANGED <<tz, now, hasLocales, store, nextId, br, sw, ops, listing, eval, threads>>

\* the invocation is over: its processes are gone, the store stays
Reap ==
    /\ cli.pc = "exited"
    /\ cli' = Proc("idle", <<>>, <<>>, <<>>, -1)
    /\ br' = NoProc
    /\ sw' = NoProc
    /\ ops' = <<>>
    /\ hasLocales' = TRUE
    /\ UNCHANGED <<tz, now, store, nextId, listing, eval, threads>>

Next ==
    \/ \E argv \in Requests, loaded, started \in BOOLEAN : CliMain(argv, loaded, started)
    \/ \E scriptOk, hasSwift, swiftStarted, intact \in BOOLEAN :
          BridgeMain(scriptOk, hasSwift, swiftStarted, intact)
    \/ \E env \in SwiftEnvs, ran, intact \in BOOLEAN : SwiftMain(env, ran, intact)
    \/ \E intact \in BOOLEAN : BridgeAfterSwift(intact)
    \/ CliAfterBridge
    \/ Reap

Spec == Init /\ [][Next]_vars

----------------------------------------------------------------------------
(* eventkit-bridge.swift run on its own                                     *)

\* add, edit, delete, complete and list, by ids that exist and ids that do not
SwiftRequests ==
    {<<Val(<<"add">>)>> \o GoodTitle \o d \o r : d \in {Absent, DueWithOffset}, r \in {Absent, Weekly}}
    \cup
    {<<Val(<<"edit">>)>> \o i \o e :
        i \in {NoValue("id"), With("id", IdText(1)), With("id", IdText(2))},
        e \in {With("title", <<"B">>), With("due", <<"2026-03-01T03:00:00+09:00">>),
               With("note", <<"n">>)}}
    \cup
    {<<Val(c)>> \o i : c \in {<<"delete">>, <<"complete">>},
                       i \in {Absent, With("id", IdText(1)), With("id", IdText(2))}}
    \cup
    {<<Val(<<"list">>)>> \o sc : sc \in {Absent, With("scope", <<"all">>)}}
    \cup {<<>>}

\* the helper, started from a shell, ran to its end
SwiftRanAlone(argv, r) ==
    /\ sw' = Exited(Proc("spawned", argv, <<>>, <<>>, -1), r.out,
                     IF r.exit = 0 THEN <<>> ELSE <<<<"error: fatal">>>>, r.exit, TRUE)
    /\ store' = r.store
    /\ nextId' = r.nextId
    /\ ops' = r.calls

\* swift eventkit-bridge.swift <argv>, started from a shell: the whole run
SwiftRun(argv, env) ==
    /\ cli.pc = "idle"
    /\ sw.pc = "none"
    /\ swCommand(argv) = <<"add">> => nextId <= MaxSwiftAdds
    /\ SwiftRanAlone(argv, swiftMain(argv, store, nextId, env, now, tz))
    /\ UNCHANGED <<tz, now, hasLocales, cli, br, listing, eval, threads>>

\* the helper's process is gone; the store stays
SwiftReap ==
    /\ cli.pc = "idle"
    /\ sw.pc = "exited"
    /\ sw' = NoProc
    /\ ops' = <<>>
    /\ UNCHANGED <<tz, now, hasLocales, store, nextId, cli, br, listing, eval, threads>>

NextSwift ==
    \/ \E argv \in SwiftRequests, env \in SwiftEnvs : SwiftRun(argv, env)
    \/ SwiftReap

SpecSwift == Init /\ [][NextSwift]_vars

----------------------------------------------------------------------------
(* eventkit-bridge.swift run on its own: recurrence rules                   *)

\* add with each frequency and interval text, with and without an end date; edit of the
\* rule of the first item; list
RuleRequests ==
    {<<Val(<<"add">>)>> \o GoodTitle \o With("repeat", <<f>>) \o n :
        f \in Freqs, n \in {Absent, With("interval", <<"2">>)}}
    \cup
    {<<Val(<<"add">>)>> \o GoodTitle \o Weekly \o n :
        n \in {With("interval", <<"0">>), With("interval", <<"-1">>), With("interval", <<"two">>),
               NoValue("interval"), With("repeat-end", <<"2026-06-30">>)}}
    \cup
    {<<Val(<<"add">>)>> \o GoodTitle \o With("repeat", <<"hourly">>)}
    \cup
    {<<Val(<<"edit">>)>> \o With("id", IdText(1)) \o With("repeat", <<"daily">>) \o n :
        n \in {Absent, With("interval", <<"3">>), With("interval", <<"0">>),
               With("interval", <<"-1">>)}}
    \cup
    {<<Val(<<"list">>)>> \o With("scope", <<"all">>)}

NextRules ==
    \/ \E argv \in RuleRequests, env \in StoreEnvs(BOOLEAN) : SwiftRun(argv, env)
    \/ SwiftReap

SpecRules == Init /\ [][NextRules]_vars

----------------------------------------------------------------------------
(* eventkit-bridge.swift run on its own: edits of the first item            *)

\* add of an item with every field and of one with a title only; edit of one field at
\* a time, well-formed, empty or malformed; complete; list
EditRequests ==
    {<<Val(<<"add">>)>> \o GoodTitle \o f :
        f \in {Absent, DueWithOffset \o With("note", <<"n">>) \o Weekly}}
    \cup
    {<<Val(<<"edit">>)>> \o With("id", IdText(1)) \o e :
        e \in {Absent, With("title", <<"B">>), With("title", <<>>),
               With("due", <<"2026-03-01T03:00:00+09:00">>), DueMalformed,
               With("note", <<"m">>), With("note", <<>>), NoValue("note"),
               With("repeat", <<"daily">>) \o With("interval", <<"3">>),
               With("repeat", <<"hourly">>)}}
    \cup
    {<<Val(<<"edit">>)>> \o With("id", IdText(2)) \o With("title", <<"B">>),
     <<Val(<<"complete">>)>> \o With("id", IdText(1)),
     <<Val(<<"list">>)>> \o With("scope", <<"all">>)}

NextEdit ==
    \/ \E argv \in EditRequests, env \in SwiftEnvs : SwiftRun(argv, env)
    \/ SwiftReap

SpecEdit == Init /\ [][NextEdit]_vars

----------------------------------------------------------------------------
(* Malformed dates, where nothing else fails: the store grants access and   *)
(* saves, osascript and swift run, every output arrives whole.              *)

\* the chain: add with a due text that is no date, with and without a repeat and a
\* note, and with an end date that is no date.  The helper on its own: the same adds,
\* add of a full item, and edits of it with a due text or an end date that is no date
NextDates ==
    \/ \E argv \in {<<Val(<<"add">>)>> \o GoodTitle \o f :
                       f \in {DueMalformed, DueMalformed \o Weekly,
                              DueMalformed \o With("note", <<"n">>),
                              DueWithOffset \o Weekly \o With("repeat-end", <<"June">>)}},
             loaded \in BOOLEAN : CliMain(argv, loaded, TRUE)
    \/ BridgeMain(TRUE, TRUE, TRUE, TRUE)
    \/ SwiftMain(CHOOSE env \in SwiftEnvs : env.granted /\ env.hasCal /\ env.saveOk, TRUE, TRUE)
    \/ BridgeAfterSwift(TRUE)
    \/ CliAfterBridge
    \/ Reap
    \/ \E argv \in {<<Val(<<"add">>)>> \o GoodTitle \o f :
                       f \in {DueWithOffset \o With("note", <<"n">>) \o Weekly,
                              DueMalformed \o With("note", <<"n">>),
                              Weekly \o With("repeat-end", <<"June">>)}}
                  \cup
                  {<<Val(<<"edit">>)>> \o With("id", IdText(1)) \o f :
                       f \in {DueMalformed \o With("title", <<"B">>),
                              With("repeat", <<"daily">>) \o With("repeat-end", <<"June">>),
                              With("due", <<"2026-03-01T03:00:00+09:00">>)}} :
          SwiftRun(argv, CHOOSE env \in SwiftEnvs : env.granted /\ env.hasCal /\ env.saveOk)
    \/ SwiftReap

SpecDates == Init /\ [][NextDates]_vars

----------------------------------------------------------------------------
(* The store refuses every permission request                               *)

\* the chain, and the helper on its own, with requestFullAccessToReminders answering
\* granted = false; items come into the store by AppleScript
NextDenied ==
    \/ \E argv \in Requests, loaded, started \in BOOLEAN : CliMain(argv, loaded, started)
    \/ \E scriptOk, hasSwift, swiftStarted, intact \in BOOLEAN :
          BridgeMain(scriptOk, hasSwift, swiftStarted, intact)
    \/ \E env \in {e \in SwiftEnvs : ~e.granted}, ran, intact \in BOOLEAN :
          SwiftMain(env, ran, intact)
    \/ \E intact \in BOOLEAN : BridgeAfterSwift(intact)
    \/ CliAfterBridge
    \/ Reap
    \/ \E argv \in SwiftRequests, env \in {e \in SwiftEnvs : ~e.granted} : SwiftRun(argv, env)
    \/ SwiftReap

SpecDenied == Init /\ [][NextDenied]_vars

----------------------------------------------------------------------------
(* list evaluated on a store, by each transport                             *)

\* due instants around the ends of the week window and of the current day, relative to
\* the current time
ListDues(nowv) ==
    {NoDue} \cup
    {DueAt(ComponentsOf(t)) :
        t \in {nowv - Day - 1, nowv - Day, nowv, nowv + 7 * Day, nowv + 7 * Day + 1,
               nowv - (nowv % Day) - 1, nowv - (nowv % Day),
               nowv - (nowv % Day) + Day - 1, nowv - (nowv % Day) + Day}}

ListItem(n, due, completed) ==
    [id |-> IdText(n), title |-> <<"T">> \o NumText(n), notes |-> Undefined, due |-> due,
     alarms |-> <<>>, rules |-> <<>>, completed |-> completed,
     completionDate |-> 0]

RECURSIVE ListStores(_, _)
ListStores(n, nowv) ==
    IF n = 0 THEN {<<>>}
    ELSE LET shorter == ListStores(n - 1, nowv) IN
         shorter \cup
         {Append(st, ListItem(Len(st) + 1, due, completed)) :
             st \in {x \in shorter : Len(x) = n - 1}, due \in ListDues(nowv),
             completed \in BOOLEAN}

Scopes == {<<"today">>, <<"week">>, <<"all">>, <<"soon">>}

InitList ==
    /\ tz \in TimeZones
    /\ now \in NowValues
    /\ hasLocales = TRUE
    /\ store \in ListStores(MaxListItems, now)
    /\ nextId = Len(store) + 1
    /\ cli = Proc("idle", <<>>, <<>>, <<>>, -1)
    /\ br = NoProc
    /\ sw = NoProc
    /\ ops = <<>>
    /\ listing = NoListing
    /\ eval = NoEval
    /\ threads = NoThreads

\* list --scope <scope> answered by the AppleScript transport and by the Swift helper
EvalList(scope) ==
    /\ listing' = [scope |-> scope,
                   script |-> scriptList(Str(scope), store, now),
                   swift |-> MapDict(swiftFiltered(scope, store, now), tz)]
    /\ UNCHANGED <<tz, now, hasLocales, store, nextId, cli, br, sw, ops, eval, threads>>

NextList == \E scope \in Scopes : EvalList(scope)

SpecList == InitList /\ [][NextList]_vars

----------------------------------------------------------------------------
(* Functions of the program evaluated on their own                          *)

\* the templates of at most n parts, a part being plain text or one of the placeholders
\* {a}, {b}, {c}
RECURSIVE Templates(_)
Templates(n) ==
    IF n = 0 THEN {<<>>}
    ELSE Templates(n - 1)
         \cup {t \o q : t \in Templates(n - 1),
                         q \in {<<"x">>, <<"{", "a", "}">>, <<"{", "b", "}">>, <<"{", "c", "}">>}}

\* formatResponse(template, { a: va, b: vb })
EvalFormat(template, va, vb) ==
    /\ eval' = [fn |-> "formatResponse", template |-> template,
                vars |-> <<[key |-> "a", value |-> va], [key |-> "b", value |-> vb]>>,
                out |-> formatResponse(template,
                                       <<[key |-> "a", value |-> va], [key |-> "b", value |-> vb]>>)]
    /\ UNCHANGED <<tz, now, hasLocales, store, nextId, cli, br, sw, ops, listing, threads>>

\* the current date when the add script runs: the day of the chain, the 31st of January
\* and the 31st of March
RunDates ==
    NowValues
    \cup {SecondsOf([y |-> 2026, mo |-> m, d |-> 31, h |-> 12, mi |-> 0, s |-> 0]) : m \in {1, 3}}

\* apple-bridge.js add(title, dueISO, note, repeat) run at nowv, once with no repeat (the
\* AppleScript) and once with repeat weekly (the Swift helper, on a store that grants
\* access and saves): the reminder each of them makes in an empty store
EvalAdd(title, dueISO, note, nowv) ==
    /\ eval' = [fn |-> "add", title |-> title, due |-> dueISO, note |-> note, now |-> nowv,
                dt |-> parseISO(dueISO, tz),
                wellFormed |-> scriptWellFormed(title, note),
                script |-> scriptReminder(title, dueISO, note, 1, nowv, tz),
                swift |-> addReminder(
                              swParseArgs(bridgeSwiftArgv(title, dueISO, note, Str(<<"weekly">>),
                                                          Undefined, Undefined)),
                              <<>>, 1,
                              [granted |-> TRUE, hasCal |-> TRUE, saveOk |-> TRUE,
                               negativeOk |-> TRUE]).store]
    /\ UNCHANGED <<tz, now, hasLocales, store, nextId, cli, br, sw, ops, listing, threads>>

\* apple-bridge.js list: set scope to "${scope}", the literal the script reads
EvalScope(scope) ==
    /\ eval' = [fn |-> "list", scope |-> scope, literal |-> readLiteral(scope)]
    /\ UNCHANGED <<tz, now, hasLocales, store, nextId, cli, br, sw, ops, listing, threads>>

\* formatResponse: the values of a are text, text holding a placeholder or a replacement
\* pattern, and no value.  add: titles and notes of plain text, with a double quote, with
\* a backslash at the end and with a backslash before a double quote; every due text of
\* the table, a text that is no date and none.  list: the scopes, and one with a quote
NextEval ==
    \/ \E template \in Templates(MaxParts),
          va \in {Undefined, Str(<<"v">>), Str(<<"{", "b", "}">>), Str(<<"$&">>)},
          vb \in {Undefined, Str(<<"w">>)} : EvalFormat(template, va, vb)
    \/ \E title \in {Str(<<"A">>), Str(<<"A", "\"", "B">>), Str(<<"A", "\\">>),
                      Str(<<"\\", "\"", "B">>)},
          dueISO \in {Undefined, Str(<<"tomorrow">>)} \cup {Str(<<c>>) : c \in DOMAIN DueTable},
          note \in {Undefined, Str(<<"n">>), Str(<<"n", "\"">>), Str(<<"n", "\\">>)},
          nowv \in RunDates : EvalAdd(title, dueISO, note, nowv)
    \/ \E scope \in {<<"today">>, <<"week">>, <<"all">>, <<"all", "\"", " & x & ", "\"">>} :
          EvalScope(scope)

SpecEval == Init /\ [][NextEval]_vars

----------------------------------------------------------------------------
(* withReminderAccess, thread by thread: the main thread, the thread that   *)
(* runs the permission callback, and the one that runs the fetch completion *)

OtherVars == <<tz, now, hasLocales, store, nextId, cli, br, sw, ops, listing, eval>>

\* the command calls withReminderAccess: requestFullAccessToReminders takes the callback
MainRequests(command) ==
    /\ threads.main = "none"
    /\ threads' = [NoThreads EXCEPT !.command = command, !.main = "requested",
                                    !.callback = "pending"]
    /\ UNCHANGED OtherVars

\* semaphore.wait() on the main thread
MainWaits ==
    /\ threads.main = "requested"
    /\ threads' = [threads EXCEPT !.main = "waiting"]
    /\ UNCHANGED OtherVars

MutWaitReturnsAtOnce(t) == TRUE

\* semaphore.wait() returns when the count can be taken
waitReturns(t) == t.semaphore > 0

\* withReminderAccess returns to the command, which returns to the end of the program
MainResumes ==
    /\ threads.main = "waiting"
    /\ waitReturns(threads)
    /\ threads' = [threads EXCEPT !.main = "returned", !.semaphore = @ - 1]
    /\ UNCHANGED OtherVars

\* the program ends: the process exits with what it has printed
MainExits ==
    /\ threads.main = "returned"
    /\ threads' = [threads EXCEPT !.main = "exited"]
    /\ UNCHANGED OtherVars

\* the permission callback starts: guard granted else { printError(...); return }
CallbackStarts(granted) ==
    /\ threads.callback = "pending"
    /\ threads' = [threads EXCEPT !.callback = IF granted THEN "body" ELSE "printing"]
    /\ UNCHANGED OtherVars

\* the body of the command up to its print: it stops at a guard or does its store
\* operation; list starts fetchReminders and waits for the completion
CallbackBody(stops) ==
    /\ threads.callback = "body"
    /\ threads' = IF threads.command = <<"list">> /\ ~stops
                  THEN [threads EXCEPT !.callback = "fetching", !.fetch = "pending"]
                  ELSE [threads EXCEPT !.callback = "printing"]
    /\ UNCHANGED OtherVars

\* the completion of fetchReminders: fetched = reminders ?? []; fetchSemaphore.signal()
FetchCompletes ==
    /\ threads.fetch = "pending"
    /\ threads' = [threads EXCEPT !.fetch = "done", !.fetchSemaphore = @ + 1]
    /\ UNCHANGED OtherVars

\* fetchSemaphore.wait() returns in the body of list
CallbackFetched ==
    /\ threads.callback = "fetching"
    /\ threads.fetchSemaphore > 0
    /\ threads' = [threads EXCEPT !.callback = "printing", !.fetchSemaphore = @ - 1]
    /\ UNCHANGED OtherVars

\* printJSON or printError: the one result of the command
CallbackPrints ==
    /\ threads.callback = "printing"
    /\ threads' = [threads EXCEPT !.callback = "leaving", !.printed = @ + 1]
    /\ UNCHANGED OtherVars

\* the closure returns: defer { semaphore.signal() }
CallbackLeaves ==
    /\ threads.callback = "leaving"
    /\ threads' = [threads EXCEPT !.callback = "done", !.semaphore = @ + 1, !.signals = @ + 1]
    /\ UNCHANGED OtherVars

\* the process is gone
ThreadsEnd ==
    /\ threads.main = "exited"
    /\ threads' = NoThreads
    /\ UNCHANGED OtherVars

NextThreads ==
    \/ \E command \in FiveCommands : MainRequests(command)
    \/ MainWaits
    \/ MainResumes
    \/ MainExits
    \/ \E granted \in BOOLEAN : CallbackStarts(granted)
    \/ \E stops \in BOOLEAN : CallbackBody(stops)
    \/ FetchCompletes
    \/ CallbackFetched
    \/ CallbackPrints
    \/ CallbackLeaves
    \/ ThreadsEnd

SpecThreads == Init /\ [][NextThreads]_vars

----------------------------------------------------------------------------
(* Properties of the invocation chain (Spec)                                *)

\* the external call was made in the current invocation
Called(op) == \E i \in 1..Len(ops) : ops[i] = op

\* a flag's value is a non-empty text
NonEmptyText(v) == v.t = "str" /\ v.s # <<>>

\* the running invocation of cli.js is the given command
Running(cmd) == cli.pc # "idle" /\ CmdOf(parseArgs(cli.argv)) = cmd

RepeatSet == Truthy(OrEmpty(parseArgs(cli.argv).opt["repeat"]))

RequiredMissing ==
    \/ /\ CmdOf(parseArgs(cli.argv)) = <<"add">>
       /\ ~NonEmptyText(parseArgs(cli.argv).opt["title"])
    \/ /\ CmdOf(parseArgs(cli.argv)) \in {<<"edit">>, <<"delete">>, <<"complete">>}
       /\ ~NonEmptyText(parseArgs(cli.argv).opt["id"])

\* C2: a mutating command whose required field is missing or empty (--title not given,
\* given without a value or given empty; --id likewise) has failed with a nonzero exit
\* and an error, and no external call has been made.
C2_ValidationBeforeAnyCall ==
    (cli.pc # "idle" /\ RequiredMissing) =>
        /\ cli.pc = "exited"
        /\ cli.exit # 0
        /\ cli.stdout = <<>>
        /\ cli.stderr # <<>>
        /\ ops = <<>>
        /\ br.pc = "none"


\* C3: cli.js accepts each of list, add, edit, delete and complete: given its required
\* field, the command is forwarded to the bridge and is not rejected as unknown.
C3_FiveCommandsAccepted ==
    (/\ cli.pc = "exited"
     /\ CmdOf(parseArgs(cli.argv)) \in FiveCommands
     /\ ~RequiredMissing) =>
        /\ cli.stderr # <<<<"Unknown command: ">> \o CmdOf(parseArgs(cli.argv))>>
        /\ Called("node apple-bridge.js")

\* the five components of a reading are those of a stored due date
SameFive(due, l) ==
    /\ due.set
    /\ due.y = l.y /\ due.mo = l.mo /\ due.d = l.d /\ due.h = l.h /\ due.mi = l.mi

\* C4: a reminder created from a due string with an explicit UTC offset stores the
\* year, month, day, hour and minute of that instant read in the local time zone,
\* whichever transport made it.
C4_StoredDueIsLocalReading ==
    (/\ Running(<<"add">>)
     /\ NonEmptyText(parseArgs(cli.argv).opt["title"])
     /\ br.pc = "exited" /\ br.exit = 0
     /\ store # <<>>
     /\ IsIsoText(ToText(OrEmpty(parseArgs(cli.argv).opt["due"])))) =>
        SameFive(store[Len(store)].due,
                 LocalReading(DateParse(ToText(OrEmpty(parseArgs(cli.argv).opt["due"]))).utc, tz))

\* the bridge could not be started or exited with a nonzero code
AdapterFailed == br.pc = "failed" \/ (br.pc = "exited" /\ br.exit # 0)

\* the Swift helper could not be started, exited nonzero, or printed ok:false
HelperFailed ==
    \/ sw.pc = "failed"
    \/ /\ sw.pc = "exited"
       /\ \/ sw.exit # 0
          \/ Parses(sw) /\ ~sw.stdout[1].v.ok

ErrorAccessOf(loc) == IF loc.hasResponses THEN loc.error_access ELSE DefaultErrorAccess

Contains(text, part) == \E i \in 1..Len(text) : IsPrefixAt(text, part, i)

C7_NonJsonIsTransportError ==
    /\ (cli.pc = "exited" /\ br.pc = "exited" /\ br.exit = 0 /\ ~Parses(br)) =>
          (cli.exit # 0 /\ cli.stdout = <<>> /\ cli.stderr # <<>>)
    /\ (br.pc = "exited" /\ sw.pc = "exited" /\ sw.exit = 0 /\ ~Parses(sw)) =>
          (br.exit # 0 /\ br.stdout = <<>> /\ br.stderr # <<>>)

\* the command line with the value of --locale replaced by en
RECURSIVE WithLocaleEn(_)
WithLocaleEn(argv) ==
    IF argv = <<>> THEN <<>>
    ELSE IF Len(argv) >= 2 /\ argv[1] = Flag("locale") /\ ~argv[2].flag
    THEN <<Flag("locale"), Val(<<"en">>)>> \o WithLocaleEn(SubSeq(argv, 3, Len(argv)))
    ELSE <<Head(argv)>> \o WithLocaleEn(Tail(argv))

SameOutput(p, f) == p.stdout = f.stdout /\ p.stderr = f.stderr /\ p.exit = f.exit

\* C8: with a locale code that is not supported (locales.json loaded, the bridge
\* having answered in JSON), what cli.js prints, JSON line included, is what the same
\* command prints with the locale code en.
C8_UnsupportedLocaleSameAsEn ==
    (/\ cli.pc = "exited"
     /\ Called("node apple-bridge.js")
     /\ hasLocales
     /\ Parses(br)
     /\ parseArgs(cli.argv).opt["locale"].t = "str"
     /\ KeyOf(parseArgs(cli.argv).opt["locale"]) \notin Supported) =>
        SameOutput(cli, cliFinish(WithLocaleEn(cli.argv), br, hasLocales, tz))

----------------------------------------------------------------------------
(* Properties of the Swift helper run on its own (SpecSwift)                *)

\* the step is a run of edit, delete or complete with an id no item of the store has
FailedLookupStep ==
    /\ sw.pc = "none"
    /\ sw'.pc = "exited"
    /\ swCommand(sw'.argv) \in {<<"edit">>, <<"delete">>, <<"complete">>}
    /\ Given(swParseArgs(sw'.argv)["id"])
    /\ \A i \in 1..Len(store) : store[i].id # swParseArgs(sw'.argv)["id"].s

\* C5: edit, delete and complete with an id that no item has print an error, which is
\* "Reminder not found" once the store has been asked, issue no save and no remove,
\* and leave the store as it was.
C5_FailedLookupLeavesStore ==
    [][FailedLookupStep =>
          /\ store' = store
          /\ nextId' = nextId
          /\ \A i \in 1..Len(ops') : ops'[i] \notin {"save", "remove"}
          /\ Len(sw'.stdout) = 1
          /\ ~sw'.stdout[1].v.ok
          /\ (\E i \in 1..Len(ops') : ops'[i] = "calendarItem") =>
                sw'.stdout = <<printError(<<"Reminder not found">>)>>]_vars

\* a by-id command has just failed its lookup on a store that holds an item
C5_Witness ==
    /\ sw.pc = "exited"
    /\ swCommand(sw.argv) \in {<<"edit">>, <<"delete">>, <<"complete">>}
    /\ sw.stdout = <<printError(<<"Reminder not found">>)>>
    /\ Called("calendarItem")
    /\ store # <<>>

----------------------------------------------------------------------------
(* Properties of list (SpecList)                                            *)

\* incomplete, and due within [now - 1 day, now + 7 days], both ends included
InWeekWindow(r) ==
    /\ ~r.completed
    /\ r.due.set
    /\ now - Day <= SecondsOf(r.due)
    /\ SecondsOf(r.due) <= now + 7 * Day

C10_UnknownScopeListsAll ==
    listing.scope \notin {<<>>, <<"today">>, <<"week">>, <<"all">>} =>
        /\ listing.script = MapRows(Incomplete(store))
        /\ listing.swift = MapDict(Incomplete(store), tz)

\* incomplete, and due within the current local day: from its start up to, and not
\* including, the start of the next
InToday(r) ==
    /\ ~r.completed
    /\ r.due.set
    /\ now - (now % Day) <= SecondsOf(r.due)
    /\ SecondsOf(r.due) < now - (now % Day) + Day

\* C11: list with scope today returns exactly the incomplete items due within the
\* current local day, the start of tomorrow excluded, by either transport.
C11_TodayIsTheLocalDay ==
    listing.scope = <<"today">> =>
        /\ listing.script = MapRows(SelectSeq(store, InToday))
        /\ listing.swift = MapDict(SelectSeq(store, InToday), tz)

\* the helper has just answered a request for cmd with a result that is ok
SwiftAnswered(cmd) ==
    /\ sw.pc = "exited"
    /\ swCommand(sw.argv) = cmd
    /\ Len(sw.stdout) = 1
    /\ sw.stdout[1].json
    /\ sw.stdout[1].v.ok

\* the positions of the items of the store with an identifier
Holding(id) == {i \in 1..Len(store) : store[i].id = id}

\* the interval a request asks for: the integer its text writes, 1 when there is none
AskedInterval(v) == IF v.t = "str" THEN IntTable[v.s[1]] ELSE 1

PositiveInterval(v) == v = Undefined \/ (v.t = "str" /\ v.s \in {<<"1">>, <<"2">>, <<"3">>})

\* C12: add with --repeat f, f one of the four frequencies, an interval n and no
\* --repeat-end creates one item that carries exactly one recurrence rule, of frequency f
\* and interval n with no end; the interval is 1 when --interval is not given.
C12_AddCreatesOneRule ==
    LET a == swParseArgs(sw.argv) IN
    (/\ SwiftAnswered(<<"add">>)
     /\ Given(a["repeat"]) /\ a["repeat"].s[1] \in Freqs
     /\ a["repeat-end"] = Undefined
     /\ PositiveInterval(a["interval"]))
    => /\ Cardinality(Holding(sw.stdout[1].v.id)) = 1
       /\ \A i \in Holding(sw.stdout[1].v.id) :
             store[i].rules = <<[frequency |-> a["repeat"].s[1],
                                 interval |-> AskedInterval(a["interval"]),
                                 end |-> NoEnd]>>

C12_Witness ==
    /\ SwiftAnswered(<<"add">>)
    /\ swParseArgs(sw.argv)["repeat"] = Str(<<"monthly">>)
    /\ swParseArgs(sw.argv)["interval"] = Str(<<"2">>)
    /\ \E i \in Holding(sw.stdout[1].v.id) : store[i].rules[1].interval = 2

\* C13: every recurrence rule add or edit passes to the store has one of the four
\* frequencies and an interval of at least 1, whatever the texts of --repeat and --interval.
C13_RulesAreValid ==
    \A i \in 1..Len(store) :
        \A k \in 1..Len(store[i].rules) :
            /\ store[i].rules[k].frequency \in Freqs
            /\ store[i].rules[k].interval >= 1

\* the value a request gives to a flag, read from the argument list itself
Supplied(argv, name) ==
    LET at == {i \in 1..Len(argv) : argv[i].flag /\ argv[i].name = name} IN
    IF at = {} THEN Undefined
    ELSE LET i == CHOOSE j \in at : TRUE IN
         IF i < Len(argv) /\ ~argv[i + 1].flag THEN Str(argv[i + 1].text) ELSE Str(<<>>)

\* the item after an edit that supplies title, due, note and repeat as given
EditedAsAsked(old, new, title, due, note, repeat) ==
    /\ new.id = old.id
    /\ new.title = (IF NonEmptyText(title) THEN title.s ELSE old.title)
    /\ new.notes = (IF note = Undefined THEN old.notes
                    ELSE IF note.s = <<>> THEN Undefined ELSE note)
    /\ IF NonEmptyText(due) /\ due.s[1] \in DOMAIN DueTable
       THEN new.due = DueAt(DueTable[due.s[1]])
       ELSE new.due = old.due /\ new.alarms = old.alarms
    /\ IF NonEmptyText(repeat) /\ repeat.s[1] \in Freqs
       THEN Len(new.rules) = 1 /\ new.rules[1].frequency = repeat.s[1]
       ELSE new.rules = old.rules
    /\ new.completed = old.completed
    /\ new.completionDate = old.completionDate

\* a step in which the helper answers cmd with a result that is ok
AnswerStep(cmd) ==
    /\ sw.pc = "none"
    /\ sw'.pc = "exited"
    /\ swCommand(sw'.argv) = cmd
    /\ Len(sw'.stdout) = 1
    /\ sw'.stdout[1].json
    /\ sw'.stdout[1].v.ok

\* C14: edit overwrites only the fields whose flags are supplied and leaves every omitted
\* field of the item as it was (title, due, note, recurrence, completed); a note supplied
\* empty clears the note, an omitted note leaves it; no other item changes.
C14_EditTouchesOnlySupplied ==
    [][AnswerStep(<<"edit">>) =>
        /\ Len(store') = Len(store)
        /\ \A i \in 1..Len(store) :
              IF store[i].id = sw'.stdout[1].v.id
              THEN EditedAsAsked(store[i], store'[i],
                                 Supplied(sw'.argv, "title"), Supplied(sw'.argv, "due"),
                                 Supplied(sw'.argv, "note"), Supplied(sw'.argv, "repeat"))
              ELSE store'[i] = store[i]]_vars

\* an edit of the title alone has answered, and the item still has the note, the due
\* date and the rule it was added with
C14_Witness ==
    /\ SwiftAnswered(<<"edit">>)
    /\ Supplied(sw.argv, "title") = Str(<<"B">>)
    /\ \E i \in Holding(sw.stdout[1].v.id) :
          /\ store[i].title = <<"B">>
          /\ store[i].notes = Str(<<"n">>)
          /\ store[i].due.set
          /\ Len(store[i].rules) = 1

WellFormedDue(due) == NonEmptyText(due) /\ due.s[1] \in DOMAIN DueTable

Issued == {IdText(n) : n \in 1..(nextId - 1)}

\* the items a list result names
Listed(line) == {line.v.items[k].id : k \in 1..Len(line.v.items)}

\* C16: delete on an existing id removes that item and no other and returns ok with the
\* id and the title the item had; from then on the id is never in the store again, and
\* every list, of any scope, names only items that are in the store, so it omits the item.
C16_DeletedStaysGone ==
    [][/\ AnswerStep(<<"delete">>) =>
            \E i \in 1..Len(store) :
                /\ store[i].id = sw'.stdout[1].v.id
                /\ store[i].id = Supplied(sw'.argv, "id").s
                /\ sw'.stdout[1].v.title = store[i].title
                /\ store' = SubSeq(store, 1, i - 1) \o SubSeq(store, i + 1, Len(store))
                /\ \A k \in 1..Len(store') : store'[k].id # store[i].id
       /\ \A id \in Issued :
            (\A k \in 1..Len(store) : store[k].id # id)
                => (\A k \in 1..Len(store') : store'[k].id # id)
       /\ AnswerStep(<<"list">>) =>
            Listed(sw'.stdout[1]) \subseteq {store'[k].id : k \in 1..Len(store')}]_vars

\* a list answered after the only item added was deleted: it is empty
C16_Witness ==
    /\ SwiftAnswered(<<"list">>)
    /\ IdText(1) \in Issued
    /\ Holding(IdText(1)) = {}
    /\ IdText(1) \notin Listed(sw.stdout[1])

\* a step in which the helper, asked to complete an id no item has, makes the lookup
CompleteAbsentStep ==
    /\ sw.pc = "none"
    /\ sw'.pc = "exited"
    /\ swCommand(sw'.argv) = <<"complete">>
    /\ NonEmptyText(Supplied(sw'.argv, "id"))
    /\ \A k \in 1..Len(store) : store[k].id # Supplied(sw'.argv, "id").s
    /\ \E k \in 1..Len(ops') : ops'[k] = "calendarItem"

\* C17: complete on an existing id sets completed to true and the completion time to
\* the current time, changes no other field and no other item, and returns the id, the
\* title and completed = true; complete on an absent id returns the not-found error.
C17_CompleteMarksOnlyCompletion ==
    [][/\ AnswerStep(<<"complete">>) =>
            \E i \in 1..Len(store) :
                /\ store[i].id = Supplied(sw'.argv, "id").s
                /\ store' = [store EXCEPT ![i].completed = TRUE, ![i].completionDate = now]
                /\ sw'.stdout[1].v = [ok |-> TRUE, id |-> store[i].id, title |-> store[i].title,
                                      completed |-> TRUE]
       /\ CompleteAbsentStep =>
            /\ sw'.stdout = <<printJSON([ok |-> FALSE, error |-> <<"Reminder not found">>])>>
            /\ store' = store]_vars

\* complete has answered for an item that has a note and a due date
C17_Witness ==
    /\ SwiftAnswered(<<"complete">>)
    /\ \E i \in Holding(sw.stdout[1].v.id) :
          /\ store[i].completed
          /\ store[i].completionDate = now
          /\ store[i].due.set
          /\ store[i].notes = Str(<<"n">>)

\* a due text, or an end-date text, that is given and is no date
MalformedDue(v) == NonEmptyText(v) /\ v.s[1] \notin DOMAIN DueTable
MalformedEnd(v) == NonEmptyText(v) /\ v.s[1] \notin DOMAIN EndTable

\* an item made or changed by a request whose due or end text may be malformed: a
\* malformed due leaves the due date as it was before (none, for a new item), a malformed
\* end leaves the rule without an end, and the note and the repeat are applied
AppliedButDates(before, it, argv) ==
    /\ MalformedDue(Supplied(argv, "due")) => it.due = before.due /\ it.alarms = before.alarms
    /\ WellFormedDue(Supplied(argv, "due")) => it.due.set
    /\ NonEmptyText(Supplied(argv, "note")) => it.notes = Supplied(argv, "note")
    /\ NonEmptyText(Supplied(argv, "repeat")) =>
          /\ Len(it.rules) = 1
          /\ it.rules[1].frequency = Supplied(argv, "repeat").s[1]
          /\ MalformedEnd(Supplied(argv, "repeat-end")) => ~it.rules[1].end.set
    /\ NonEmptyText(Supplied(argv, "title")) => Contains(it.title, Supplied(argv, "title").s)

NoItem == [due |-> NoDue, alarms |-> <<>>]

HasMalformedDate(argv) ==
    MalformedDue(Supplied(argv, "due")) \/ MalformedEnd(Supplied(argv, "repeat-end"))

\* C18: a malformed due text or recurrence end-date text never aborts the command: where
\* nothing else fails, add (through cli.js by either transport, or by the helper alone)
\* and edit still succeed, the item gets no due date or no recurrence end, an edited
\* item keeps the due date it had, and the other supplied fields are applied.
C18_MalformedDateIsAbsent ==
    [][/\ (cli.pc = "await" /\ cli'.pc = "exited" /\ HasMalformedDate(cli'.argv)) =>
            /\ cli'.exit = 0
            /\ cli'.stderr = <<>>
            /\ Len(cli'.stdout) = 1 /\ cli'.stdout[1].json /\ cli'.stdout[1].v.ok
            /\ Len(store') = nextId' - 1
            /\ Len(store') >= 1
            /\ store'[Len(store')].id = IdText(nextId' - 1)
            /\ AppliedButDates(NoItem, store'[Len(store')], cli'.argv)
       /\ (cli.pc = "idle" /\ sw.pc = "none" /\ sw'.pc = "exited" /\ HasMalformedDate(sw'.argv)
           /\ swCommand(sw'.argv) = <<"add">>) =>
            /\ AnswerStep(<<"add">>)
            /\ sw'.exit = 0
            /\ Len(store') = Len(store) + 1
            /\ AppliedButDates(NoItem, store'[Len(store')], sw'.argv)
       /\ (cli.pc = "idle" /\ sw.pc = "none" /\ sw'.pc = "exited" /\ HasMalformedDate(sw'.argv)
           /\ swCommand(sw'.argv) = <<"edit">>) =>
            \A i \in 1..Len(store) :
                store[i].id = Supplied(sw'.argv, "id").s =>
                    /\ AnswerStep(<<"edit">>)
                    /\ sw'.exit = 0
                    /\ Len(store') = Len(store)
                    /\ AppliedButDates(store[i], store'[i], sw'.argv)]_vars

\* an item with a due date has been edited with a due text that is no date and a new
\* title: it has the new title and the due date it had
C18_Witness ==
    /\ SwiftAnswered(<<"edit">>)
    /\ MalformedDue(Supplied(sw.argv, "due"))
    /\ \E i \in Holding(sw.stdout[1].v.id) : store[i].due.set /\ store[i].title = <<"B">>

\* how many of the external calls of the invocation so far are among the named ones
CountOf(names) == Cardinality({i \in 1..Len(ops) : ops[i] \in names})

\* the calls apple-bridge.js makes: they start osascript, which, or swift
BridgeCalls == {"osascript", "which swift", "swift eventkit-bridge.swift"}

\* apple-bridge.js has a command to carry out: list, or add with a title
BridgeDispatches ==
    \/ CmdOf(parseArgs(br.argv)) = <<"list">>
    \/ CmdOf(parseArgs(br.argv)) = <<"add">> /\ Truthy(parseArgs(br.argv).opt["title"])

\* C19: each process of the chain makes exactly one external call in an invocation that
\* dispatches a command and none when it stops at help, validation or an unknown
\* command: cli.js starts the bridge once, the bridge starts osascript or the Swift
\* helper once, and each waits for the answer before it prints and exits.
C19_OneExternalCallEach ==
    /\ cli.pc = "exited" =>
          /\ CountOf({"node apple-bridge.js"}) = (IF br.pc = "none" THEN 0 ELSE 1)
          /\ br.pc \in {"none", "exited", "failed"}
    /\ br.pc = "exited" =>
          /\ CountOf(BridgeCalls) = (IF BridgeDispatches THEN 1 ELSE 0)
          /\ sw.pc \in {"none", "exited", "failed"}

\* the one result the helper prints when access is refused
DeniedResult == <<printJSON([ok |-> FALSE, error |-> <<"Reminders access denied">>])>>

\* C20: when the store refuses the permission request the body of the command never
\* runs (the helper makes no call to the store but the request, and the store is as it
\* was), the helper prints exactly one result, with ok false, the request is made once,
\* and the invocation of cli.js ends with a nonzero exit code and nothing on standard output.
C20_RefusedAccessRunsNothing ==
    [][/\ (sw.pc = "spawned" /\ sw'.pc = "exited" /\ ops' # ops) =>
            /\ ops' = Append(ops, "requestAccess")
            /\ store' = store /\ nextId' = nextId
            /\ sw'.stdout = DeniedResult
       /\ (cli.pc = "idle" /\ sw.pc = "none" /\ sw'.pc = "exited" /\ ops' # <<>>) =>
            /\ ops' = <<"requestAccess">>
            /\ store' = store /\ nextId' = nextId
            /\ sw'.stdout = DeniedResult
       /\ (cli.pc = "await" /\ cli'.pc = "exited" /\ Called("requestAccess")) =>
            /\ cli'.exit # 0
            /\ cli'.stdout = <<>>
            /\ CountOf({"requestAccess"}) = 1
            /\ CountOf({"swift eventkit-bridge.swift"}) = 1]_vars

\* cli.js has ended an add that the helper answered with the refusal
C20_Witness ==
    /\ cli.pc = "exited"
    /\ cli.exit = 1
    /\ Called("requestAccess")
    /\ sw.stdout = DeniedResult
    /\ br.exit = 1

\* a printed line is one JSON object of the shape {ok: true, ...} or {ok: false, error}
IsResultObject(line) ==
    /\ line.json
    /\ DOMAIN line.v \subseteq STRING
    /\ "ok" \in DOMAIN line.v
    /\ line.v.ok \in BOOLEAN
    /\ ~line.v.ok => "error" \in DOMAIN line.v

\* C21: every recognised command of the Swift helper, on every path, prints exactly one
\* JSON object of the shape {ok: true, ...fields} or {ok: false, error: text} on standard
\* output, and so does apple-bridge.js for list and for add.
C21_OneResultObject ==
    /\ (sw.pc = "exited" /\ sw.exit = 0 /\ swCommand(sw.argv) \in FiveCommands) =>
          (Len(sw.stdout) = 1 /\ IsResultObject(sw.stdout[1]))
    /\ (br.pc = "exited" /\ BridgeDispatches) =>
          (Len(br.stdout) = 1 /\ IsResultObject(br.stdout[1]))

\* the value the variables give to a key: its text, or nothing when it has no value
ValueOf(varList, k) ==
    LET i == CHOOSE j \in 1..Len(varList) : varList[j].key = k IN
    IF varList[i].value.t = "str" THEN varList[i].value.s ELSE <<>>

\* the template read once from position i, each placeholder of a supplied key giving
\* way to the text of its value, everything else kept
RECURSIVE Substituted(_, _, _)
Substituted(template, varList, i) ==
    IF i > Len(template) THEN <<>>
    ELSE IF /\ i + 2 <= Len(template)
            /\ template[i] = "{" /\ template[i + 2] = "}"
            /\ \E j \in 1..Len(varList) : varList[j].key = template[i + 1]
    THEN ValueOf(varList, template[i + 1]) \o Substituted(template, varList, i + 3)
    ELSE <<template[i]>> \o Substituted(template, varList, i + 1)

\* C22: formatResponse returns the template with every {k}, k a key of the variables,
\* replaced by exactly the text of the value of k (nothing when it has none); the values
\* are inserted literally and not scanned for placeholders, and a placeholder of no
\* supplied variable stays.
C22_FormatSubstitutesLiterally ==
    eval.fn = "formatResponse" => eval.out = Substituted(eval.template, eval.vars, 1)

\* C23: every item the list command of cli.js returns carries the store's id of that
\* reminder, so that it can be passed to edit, delete or complete, and list gets its
\* items through the EventKit transport.
C23_ListItemsCarryIds ==
    (/\ cli.pc = "exited" /\ cli.exit = 0
     /\ CmdOf(parseArgs(cli.argv)) = <<"list">>
     /\ Parses(br)
     /\ Len(cli.stdout) = 1 /\ cli.stdout[1].json) =>
        /\ \A k \in 1..Len(cli.stdout[1].v.items) :
              /\ "id" \in DOMAIN cli.stdout[1].v.items[k]
              /\ \E i \in 1..Len(store) : store[i].id = cli.stdout[1].v.items[k].id
        /\ Called("swift eventkit-bridge.swift")
        /\ ~Called("osascript")

\* the locale of the running cli.js defines a label for the repeat of the request
LabelDefined(args) ==
    /\ NonEmptyText(args.opt["repeat"])
    /\ getLocale(cliLocale(args), hasLocales).hasRepeat
    /\ args.opt["repeat"].s[1] \in DOMAIN getLocale(cliLocale(args), hasLocales).labels

\* ' - <formatted due>' when the due text of the request parses as a date, else nothing
DueSuffix(args) ==
    IF NonEmptyText(args.opt["due"]) /\ DateParse(args.opt["due"].s).ok
    THEN <<" - ">> \o formatDueForTitle(args.opt["due"], cliLocale(args), tz)
    ELSE <<>>

\* sent is title, then a text in parentheses exactly when a label is defined, then suffix
TitleShape(sent, title, labelled, suffix) ==
    /\ Len(sent) >= Len(title) + Len(suffix)
    /\ SubSeq(sent, 1, Len(title)) = title
    /\ SubSeq(sent, Len(sent) - Len(suffix) + 1, Len(sent)) = suffix
    /\ IF labelled
       THEN /\ Len(sent) >= Len(title) + Len(suffix) + 3
            /\ sent[Len(title) + 1] = " ("
            /\ sent[Len(sent) - Len(suffix)] = ")"
       ELSE Len(sent) = Len(title) + Len(suffix)

C25_MainReturnsAfterCallback ==
    /\ threads.signals <= 1
    /\ threads.semaphore \in {0, 1}
    /\ threads.printed <= 1
    /\ threads.callback = "done" => threads.signals = 1
    /\ threads.main \in {"returned", "exited"} =>
          /\ threads.callback = "done"
          /\ threads.printed = 1
          /\ threads.signals = 1
          /\ threads.fetch \in {"none", "done"}

\* the process of a list has exited after the fetch completed and the result was printed
C25_Witness ==
    /\ threads.main = "exited"
    /\ threads.command = <<"list">>
    /\ threads.fetch = "done"
    /\ threads.printed = 1

\* C26: for the same title, due string and note, the AppleScript transport and the Swift
\* transport store the same due date: one stores a due date exactly when the other does,
\* and the calendar components are equal (run on a day where setting the fields one at a
\* time does not overflow).
C26_TransportsStoreSameDue ==
    (eval.fn = "add" /\ eval.now \in NowValues /\ eval.wellFormed) =>
        /\ Len(eval.swift) = 1
        /\ eval.script.due = eval.swift[1].due

\* C27: on the AppleScript transport the due date given to the store has the year, month,
\* day, hour and minute returned by parseISO, whatever the current date is when the
\* script runs.
C27_ScriptDueIsParsedDate ==
    (eval.fn = "add" /\ eval.dt.ok) =>
        /\ eval.script.due.set
        /\ eval.script.due.y = eval.dt.year
        /\ eval.script.due.mo = eval.dt.month
        /\ eval.script.due.d = eval.dt.day
        /\ eval.script.due.h = eval.dt.hour
        /\ eval.script.due.mi = eval.dt.minute

\* C28: title, note and scope reach the script only as the content of a string literal:
\* every literal ends where the template ends it, the created reminder's name and body
\* equal the supplied text, and the scope the script reads is the supplied scope.
C28_TextStaysInsideLiteral ==
    /\ eval.fn = "add" =>
          /\ eval.wellFormed
          /\ eval.script.title = ToText(eval.title)
          /\ Truthy(eval.note) => eval.script.notes = eval.note
    /\ eval.fn = "list" =>
          /\ eval.literal.ok
          /\ eval.literal.text = eval.scope

\* the items of the store that a printed list shows, found by their titles
ShownIn(rows) == {i \in 1..Len(store) : \E k \in 1..Len(rows) : rows[k].title = store[i].title}

\* C29: list never returns a completed item, under any scope and by either transport, and
\* never returns an item without a due date under today or week; the AppleScript returns
\* one only under all, the Swift helper under every scope other than today and week.
C29_ListOmitsCompletedAndUndated ==
    listing.scope # <<>> =>
        /\ \A i \in ShownIn(listing.script) \cup ShownIn(listing.swift) : ~store[i].completed
        /\ listing.scope \in {<<"today">>, <<"week">>} =>
              \A i \in ShownIn(listing.script) \cup ShownIn(listing.swift) : store[i].due.set
        /\ listing.scope # <<"all">> => \A i \in ShownIn(listing.script) : store[i].due.set

\* list of the week on a store that holds a completed item due now and an item without a
\* due date: neither transport returns anything
C29_Witness ==
    /\ listing.scope = <<"week">>
    /\ \E i \in 1..Len(store) : store[i].completed /\ store[i].due.set /\ SecondsOf(store[i].due) = now
    /\ \E i \in 1..Len(store) : ~store[i].completed /\ ~store[i].due.set
    /\ listing.script = <<>>
    /\ listing.swift = <<>>

\* C29 as stated: an item without a due date is returned only when the scope is all
C29_UndatedOnlyUnderAll ==
    (listing.scope # <<>> /\ listing.scope # <<"all">>) =>
        \A i \in ShownIn(listing.script) \cup ShownIn(listing.swift) : store[i].due.set

\* the helper runs complete on the id of an item that is already completed
CompleteAgainStep ==
    /\ sw.pc = "none"
    /\ sw'.pc = "exited"
    /\ swCommand(sw'.argv) = <<"complete">>
    /\ NonEmptyText(Supplied(sw'.argv, "id"))
    /\ \E k \in 1..Len(store) : store[k].id = Supplied(sw'.argv, "id").s /\ store[k].completed

\* C30: completion is monotonic and idempotent: no run of the helper sets the completed
\* flag of an item it keeps back to false, and complete on the id of a completed item
\* answers as it did the first time; it fails only when the store refuses access or the
\* save.
C30_CompletionStays ==
    [][/\ \A i \in 1..Len(store), j \in 1..Len(store') :
            (store[i].completed /\ store'[j].id = store[i].id) => store'[j].completed
       /\ CompleteAgainStep =>
            /\ Len(sw'.stdout) = 1
            /\ sw'.stdout[1].json
            /\ IF sw'.stdout[1].v.ok
               THEN \E k \in 1..Len(store') :
                       /\ store'[k].completed
                       /\ sw'.stdout[1].v = [ok |-> TRUE, id |-> store'[k].id,
                                             title |-> store'[k].title, completed |-> TRUE]
               ELSE sw'.stdout[1].v.error \in {<<"Reminders access denied">>, <<"save failed">>}]_vars

\* edit has changed the title of an item that was completed before, and it is still
\* completed
C30_Witness ==
    /\ SwiftAnswered(<<"edit">>)
    /\ \E i \in Holding(sw.stdout[1].v.id) :
          /\ store[i].completed
          /\ store[i].title = <<"B">>

====
